---- MODULE Spec2Model ----
(***************************************************************************)
(* The Markdown <-> kanban board transcoder of kanbanmd: parseMarkdown,    *)
(* extractLinks and generateMarkdown; and the parts of the application     *)
(* around it: loading a file, editing a card, and the sync module.         *)
(*                                                                         *)
(* A JavaScript string is a sequence of one-character strings, so that     *)
(* trim, startsWith, split and the regular expressions of the source are   *)
(* computed character by character.  null and undefined are the values     *)
(* NULL and UNDEFINED below, which no string of characters equals.         *)
(***************************************************************************)
EXTENDS Integers, Sequences, FiniteSets, TLC

VARIABLES
    src,              \* the input as it was composed (line descriptors); never read by the program
    markdown,         \* parseMarkdown's argument
    lines,            \* markdown.split('\n')
    i,                \* the loop index of parseMarkdown (1-based)
    columns,          \* the columns built so far / the board returned
    currentColumn,    \* index of the current column in columns, 0 for null
    currentCard,      \* index of the current card in the current column, 0 for null
    inCodeBlock,
    indentationLevel,
    pc,               \* "parsing", "returned", "thrown", "generated", "genthrown", "saved",
                      \* "idle" (nothing called yet)
    outputs,          \* the texts generateMarkdown returned so far, in order
    iterations,       \* number of loop iterations of the stepwise parse
    calls,            \* the finished calls of parseMarkdown and extractLinks, in order;
                      \* never read by the program
    page,             \* the page: visibility of the file section and of the board
                      \* container, the board rendered, the alerts shown
    syncState,        \* syncState of the sync module: pendingChanges and the two timer ids
    browser,          \* the clock, the pending timeouts, the requests in flight, the
                      \* authentication state
    history           \* what happened so far in the sync module; never read by the program

\* the variables of the application around the transcoder
appVars == <<page, syncState, browser, history>>

vars == <<src, markdown, lines, i, columns, currentColumn, currentCard,
          inCodeBlock, indentationLevel, pc, outputs, iterations, calls,
          page, syncState, browser, history>>

----------------------------------------------------------------------------
(* Characters and the string built-ins the source uses.                    *)

LowerLetters ==
    <<"a","b","c","d","e","f","g","h","i","j","k","l","m","n","o","p","q","r","s","t","u","v","w","x","y","z">>

UpperLetters ==
    <<"A","B","C","D","E","F","G","H","I","J","K","L","M","N","O","P","Q","R","S","T","U","V","W","X","Y","Z">>

DigitChars ==
    {"0","1","2","3","4","5","6","7","8","9"}

\* the grave accent character (the one character that is not written as itself)
Backtick ==
    "backtick"

NULL ==
    <<"null">>

UNDEFINED ==
    <<"undefined">>

\* \s of the regular expressions, and the characters String.prototype.trim removes
IsSpace(c) ==
    c \in {" ", "\t", "\n", "\r"}

\* \d
IsDigit(c) ==
    c \in DigitChars

\* \w
IsWordChar(c) ==
    \/ \E k \in 1..Len(LowerLetters) : c = LowerLetters[k] \/ c = UpperLetters[k]
    \/ IsDigit(c)
    \/ c = "_"

toLowerCaseChar(c) ==
    IF \E k \in 1..Len(UpperLetters) : c = UpperLetters[k]
    THEN LowerLetters[CHOOSE k \in 1..Len(UpperLetters) : c = UpperLetters[k]]
    ELSE c

toLowerCase(s) ==
    [k \in 1..Len(s) |-> toLowerCaseChar(s[k])]

\* the elements of a finite set of integers in increasing order
SortedSeq(S) ==
    [k \in 1..Cardinality(S) |-> CHOOSE x \in S : Cardinality({y \in S : y < x}) = k - 1]

Min(S) ==
    CHOOSE x \in S : \A y \in S : x <= y

\* s with the n characters from position p removed
RemoveAt(s, p, n) ==
    SubSeq(s, 1, p - 1) \o SubSeq(s, p + n, Len(s))

\* String.prototype.trim
trim(s) ==
    LET ns == {k \in 1..Len(s) : ~IsSpace(s[k])}
    IN  IF ns = {} THEN <<>>
        ELSE SubSeq(s, Min(ns), CHOOSE k \in ns : \A j \in ns : j <= k)

\* String.prototype.startsWith
startsWith(s, p) ==
    Len(s) >= Len(p) /\ SubSeq(s, 1, Len(p)) = p

\* String.prototype.includes
includes(s, p) ==
    \E k \in 1..(Len(s) - Len(p) + 1) : SubSeq(s, k, k + Len(p) - 1) = p

\* String.prototype.substring(n): the string from 0-based index n on
substring(s, n) ==
    SubSeq(s, n + 1, Len(s))

\* line.search(/\S/): 0-based index of the first non-whitespace character, -1 if none
searchNonSpace(s) ==
    LET ns == {k \in 1..Len(s) : ~IsSpace(s[k])}
    IN  IF ns = {} THEN 0 - 1 ELSE Min(ns) - 1

\* String.prototype.split('\n')
split(s) ==
    LET nl   == SortedSeq({k \in 1..Len(s) : s[k] = "\n"})
        n    == Len(nl)
        from(k) == IF k = 1 THEN 1 ELSE nl[k - 1] + 1
        to(k)   == IF k = n + 1 THEN Len(s) ELSE nl[k] - 1
    IN  [k \in 1..(n + 1) |-> SubSeq(s, from(k), to(k))]

\* '  '.repeat(n)
repeatIndent(n) ==
    [k \in 1..(2 * n) |-> " "]

----------------------------------------------------------------------------
(* The regular expressions of parseMarkdown.                               *)

\* [\w-]
IsTagChar(c) ==
    IsWordChar(c) \/ c = "-"

\* last position of the maximal run of tag characters that starts at p + 1
TagEnd(s, p) ==
    CHOOSE q \in (p + 1)..Len(s) :
        /\ \A k \in (p + 1)..q : IsTagChar(s[k])
        /\ q = Len(s) \/ ~IsTagChar(s[q + 1])

\* the while loop over tagRegex.exec: every match of /#([\w-]+)/g, left to right.
\* '#' is no tag character, so no match starts inside an earlier one.
execAllTags(s) ==
    LET starts == SortedSeq({p \in 1..(Len(s) - 1) : s[p] = "#" /\ IsTagChar(s[p + 1])})
    IN  [k \in 1..Len(starts) |-> SubSeq(s, starts[k] + 1, TagEnd(s, starts[k]))]

DueLen ==
    16

\* dueDateAt with a calendar check: the month is 01..12 and the day 01..31
dueDateAtCalendar(s, p) ==
    /\ p + DueLen - 1 <= Len(s)
    /\ SubSeq(s, p, p + 4) = <<"@","d","u","e","(">>
    /\ \A k \in {5, 6, 7, 8, 10, 11, 13, 14} : IsDigit(s[p + k])
    /\ s[p + 9] = "-"
    /\ s[p + 12] = "-"
    /\ s[p + 15] = ")"
    /\ s[p + 10] \in {"0", "1"} /\ (s[p + 10] = "1" => s[p + 11] \in {"0", "1", "2"})
    /\ s[p + 13] \in {"0", "1", "2", "3"}

\* /@due\((\d{4}-\d{2}-\d{2})\)/ matches at position p
dueDateAt(s, p) ==
    /\ p + DueLen - 1 <= Len(s)
    /\ SubSeq(s, p, p + 4) = <<"@","d","u","e","(">>
    /\ \A k \in {5, 6, 7, 8, 10, 11, 13, 14} : IsDigit(s[p + k])
    /\ s[p + 9] = "-"
    /\ s[p + 12] = "-"
    /\ s[p + 15] = ")"

\* cardText.match(dueDateRegex): position of the first match, 0 for null
matchDueDate(s) ==
    LET ms == {p \in 1..Len(s) : dueDateAt(s, p)}
    IN  IF ms = {} THEN 0 ELSE Min(ms)

PriorityWords ==
    {<<"h","i","g","h">>, <<"m","e","d","i","u","m">>, <<"l","o","w">>}

\* /!(high|medium|low)/i matches word w at position p
priorityAt(s, p, w) ==
    /\ s[p] = "!"
    /\ p + Len(w) <= Len(s)
    /\ toLowerCase(SubSeq(s, p + 1, p + Len(w))) = w

\* cardText.match(priorityRegex): position of the first match, 0 for null
matchPriority(s) ==
    LET ms == {p \in 1..Len(s) : \E w \in PriorityWords : priorityAt(s, p, w)}
    IN  IF ms = {} THEN 0 ELSE Min(ms)

\* the alternative of (high|medium|low) matched at position p, as written in s
priorityGroup(s, p) ==
    LET w == CHOOSE v \in PriorityWords : priorityAt(s, p, v)
    IN  SubSeq(s, p + 1, p + Len(w))

----------------------------------------------------------------------------
(* extractLinks                                                            *)

\* /\[([^\[\]]+)\]\(([^\(\)]+)\)/ matches at position p: the positions of its
\* "]" and ")" (0, 0 when it does not match).  The label stops at the first
\* bracket and the url at the first parenthesis, so a match at p is unique.
markdownLinkAt(s, p) ==
    LET br == {k \in (p + 1)..Len(s) : s[k] \in {"[", "]"}}
        q  == IF br = {} THEN 0 ELSE Min(br)
        pa == {k \in (q + 2)..Len(s) : s[k] \in {"(", ")"}}
        r  == IF pa = {} THEN 0 ELSE Min(pa)
    IN  IF /\ p <= Len(s) /\ s[p] = "["
           /\ q > p + 1 /\ s[q] = "]"
           /\ q + 1 <= Len(s) /\ s[q + 1] = "("
           /\ r > q + 2 /\ s[r] = ")"
        THEN <<q, r>> ELSE <<0, 0>>

\* the while loop over markdownLinkRegex.exec, searching from position from (lastIndex)
RECURSIVE execAllMarkdownLinks(_, _)
execAllMarkdownLinks(s, from) ==
    LET ms == {p \in from..Len(s) : markdownLinkAt(s, p)[1] # 0}
    IN  IF ms = {} THEN <<>>
        ELSE LET p  == Min(ms)
                 qr == markdownLinkAt(s, p)
             IN  <<[text |-> SubSeq(s, p + 1, qr[1] - 1),
                    href |-> SubSeq(s, qr[1] + 2, qr[2] - 1)]>>
                 \o execAllMarkdownLinks(s, qr[2] + 1)

\* [^\s\)]
IsUrlChar(c) ==
    ~IsSpace(c) /\ c # ")"

\* /(?<!\()https?:\/\/[^\s\)]+/ matches at position p: the position of its last
\* character (0 when it does not match)
urlAt(s, p) ==
    LET h    == p + 4
        body == IF /\ h + 3 <= Len(s)
                   /\ SubSeq(s, h, h + 3) = <<"s", ":", "/", "/">>
                THEN h + 4
                ELSE IF h + 2 <= Len(s) /\ SubSeq(s, h, h + 2) = <<":", "/", "/">>
                     THEN h + 3
                     ELSE 0
    IN  IF /\ p + 3 <= Len(s)
           /\ SubSeq(s, p, p + 3) = <<"h", "t", "t", "p">>
           /\ (p = 1 \/ s[p - 1] # "(")
           /\ body # 0 /\ body <= Len(s) /\ IsUrlChar(s[body])
        THEN CHOOSE e \in body..Len(s) :
                 /\ \A k \in body..e : IsUrlChar(s[k])
                 /\ e = Len(s) \/ ~IsUrlChar(s[e + 1])
        ELSE 0

\* addBareUrl without the test for an existing href
addBareUrlAlways(links, url) ==
    Append(links, [text |-> url, href |-> url])

\* a bare URL is added unless some link already has it as href
addBareUrl(links, url) ==
    IF \E k \in 1..Len(links) : links[k].href = url
    THEN links
    ELSE Append(links, [text |-> url, href |-> url])

\* the while loop over urlRegex.exec, searching from position from (lastIndex)
RECURSIVE execAllUrls(_, _, _)
execAllUrls(s, from, links) ==
    LET ms == {p \in from..Len(s) : urlAt(s, p) # 0}
    IN  IF ms = {} THEN links
        ELSE LET p == Min(ms)
                 e == urlAt(s, p)
             IN  execAllUrls(s, e + 1, addBareUrl(links, SubSeq(s, p, e)))

extractLinks(text) ==
    execAllUrls(text, 1, execAllMarkdownLinks(text, 1))

----------------------------------------------------------------------------
(* parseMarkdown                                                           *)

\* the three characters that open or close a fenced block
Fence ==
    <<Backtick, Backtick, Backtick>>

\* toggleCodeBlock's test
isFence(line) ==
    startsWith(trim(line), Fence)

\* indentOf rounding up
indentOfCeil(line) ==
    (searchNonSpace(line) + 1) \div 2

\* Math.floor(line.search(/\S/) / 2)
indentOf(line) ==
    searchNonSpace(line) \div 2

\* stripCheckbox that knows [x] but not [X]
stripCheckboxLowerOnly(trimmedLine) ==
    LET cardText == trim(substring(trimmedLine, 1))
    IN  IF startsWith(cardText, <<"[", " ", "]">>)
        THEN [text |-> trim(substring(cardText, 3)), completed |-> FALSE]
        ELSE IF startsWith(cardText, <<"[", "x", "]">>)
             THEN [text |-> trim(substring(cardText, 3)), completed |-> TRUE]
             ELSE [text |-> cardText, completed |-> FALSE]

\* the checkbox detection: the text after the list marker, and isCompleted
stripCheckbox(trimmedLine) ==
    LET cardText == trim(substring(trimmedLine, 1))
    IN  IF startsWith(cardText, <<"[", " ", "]">>)
        THEN [text |-> trim(substring(cardText, 3)), completed |-> FALSE]
        ELSE IF \/ startsWith(cardText, <<"[", "x", "]">>)
                \/ startsWith(cardText, <<"[", "X", "]">>)
             THEN [text |-> trim(substring(cardText, 3)), completed |-> TRUE]
             ELSE [text |-> cardText, completed |-> FALSE]

\* the tags of a card: every match of tagRegex in the text after the checkbox
extractTags(cardText) ==
    execAllTags(cardText)

\* extractDueDate leaving the marker in the text
extractDueDateKeepMarker(cardText) ==
    LET p == matchDueDate(cardText)
    IN  IF p # 0
        THEN [dueDate |-> SubSeq(cardText, p + 5, p + 14), text |-> cardText]
        ELSE [dueDate |-> NULL, text |-> cardText]

\* the due date extraction: dueDate and the text with the marker removed
extractDueDate(cardText) ==
    LET p == matchDueDate(cardText)
    IN  IF p # 0
        THEN [dueDate |-> SubSeq(cardText, p + 5, p + 14),
              text    |-> trim(RemoveAt(cardText, p, DueLen))]
        ELSE [dueDate |-> NULL, text |-> cardText]

\* extractPriority without the toLowerCase
extractPriorityKeepCase(cardText) ==
    LET p == matchPriority(cardText)
    IN  IF p # 0
        THEN [priority |-> priorityGroup(cardText, p),
              text     |-> trim(RemoveAt(cardText, p, Len(priorityGroup(cardText, p)) + 1))]
        ELSE [priority |-> NULL, text |-> cardText]

\* the priority extraction: priority and the text with the marker removed
extractPriority(cardText) ==
    LET p == matchPriority(cardText)
    IN  IF p # 0
        THEN [priority |-> toLowerCase(priorityGroup(cardText, p)),
              text     |-> trim(RemoveAt(cardText, p, Len(priorityGroup(cardText, p)) + 1))]
        ELSE [priority |-> NULL, text |-> cardText]

\* the card built from a list item line
newCard(line) ==
    LET box  == stripCheckbox(trim(line))
        due  == extractDueDate(box.text)
        prio == extractPriority(due.text)
    IN  [text        |-> prio.text,
         completed   |-> box.completed,
         indentation |-> indentOf(line),
         content     |-> <<>>,
         subtasks    |-> <<>>,
         tags        |-> extractTags(box.text),
         dueDate     |-> due.dueDate,
         priority    |-> prio.priority,
         links       |-> extractLinks(prio.text)]

\* the subtask built from a nested list item line
newSubtask(line, level) ==
    LET box == stripCheckbox(trim(line))
    IN  [text        |-> box.text,
         completed   |-> box.completed,
         indentation |-> indentOf(line) - level]

\* columnTitle that removes the ## whether or not whitespace follows it
columnTitleMarkerOnly(trimmedLine) ==
    trim(substring(trimmedLine, 2))

\* trimmedLine.replace(/^##\s+/, '').trim()
columnTitle(trimmedLine) ==
    LET rest == substring(trimmedLine, 2)
        ns   == {k \in 1..Len(rest) : ~IsSpace(rest[k])}
    IN  IF rest # <<>> /\ IsSpace(rest[1])
        THEN trim(IF ns = {} THEN <<>> ELSE SubSeq(rest, Min(ns), Len(rest)))
        ELSE trim(trimmedLine)

\* a heading that replaces the column before it when that column has no card
pushColumnDropEmpty(cols, title) ==
    IF cols # <<>> /\ cols[Len(cols)].cards = <<>>
    THEN [cols EXCEPT ![Len(cols)] = [title |-> title, cards |-> <<>>]]
    ELSE Append(cols, [title |-> title, cards |-> <<>>])

\* columns.push of the column a heading opens
pushColumn(cols, title) ==
    Append(cols, [title |-> title, cards |-> <<>>])

\* the skip test of the loop: an empty or metadata line
isSkippable(trimmedLine) ==
    \/ trimmedLine = <<>>
    \/ startsWith(trimmedLine, <<"-", "-", "-">>)
    \/ startsWith(trimmedLine, <<"%">>)

\* the test for "the start of a new card" in the continuation branch
looksLikeCard(trimmedLine) ==
    /\ startsWith(trimmedLine, <<"-">>)
    /\ \/ includes(trimmedLine, <<"[", " ", "]">>)
       \/ includes(trimmedLine, <<"[", "x", "]">>)
       \/ includes(trimmedLine, <<"[", "X", "]">>)

\* currentCard.content += line + '\n'
appendContent(st, line) ==
    [st EXCEPT !.columns[st.currentColumn].cards[st.currentCard].content =
                   @ \o line \o <<"\n">>]

\* the loop without the capture: lines in a code block are parsed like others
capturesNothing(st) ==
    FALSE

\* whether a line met inside a code block is captured as content
capturesInCodeBlock(st) ==
    st.inCodeBlock /\ st.currentCard # 0

\* isCardLine that leaves a list item line met while a card is open to the
\* continuation branch
isCardLineNoCardOpen(st, trimmedLine) ==
    startsWith(trimmedLine, <<"-">>) /\ st.currentColumn # 0 /\ st.currentCard = 0

\* whether a list item line opens a card
isCardLine(st, trimmedLine) ==
    startsWith(trimmedLine, <<"-">>) /\ st.currentColumn # 0

\* One iteration of the for loop on line number st.i, on the record st of the
\* loop's variables; the result has i advanced as the loop leaves it.
LoopBody(ls, st) ==
    LET line        == ls[st.i]
        trimmedLine == trim(line)
        next(s)     == [s EXCEPT !.i = @ + 1]
    IN  IF isFence(line)
        THEN LET t == [st EXCEPT !.inCodeBlock = ~@]
             IN  next(IF st.currentCard # 0 THEN appendContent(t, line) ELSE t)
        ELSE IF isSkippable(trimmedLine) /\ st.currentCard = 0
        THEN next(st)
        ELSE IF capturesInCodeBlock(st)
        THEN next(appendContent(st, line))
        ELSE IF startsWith(trimmedLine, <<"#", "#">>)
        THEN LET cols == pushColumn(st.columns, columnTitle(trimmedLine))
             IN  next([st EXCEPT
                      !.currentCard = 0,
                      !.columns = cols,
                      !.currentColumn = Len(cols)])
        ELSE IF isCardLine(st, trimmedLine)
        THEN next([st EXCEPT
                 !.indentationLevel = indentOf(line),
                 !.columns[st.currentColumn].cards = Append(@, newCard(line)),
                 !.currentCard = Len(st.columns[st.currentColumn].cards) + 1])
        ELSE IF st.currentColumn # 0 /\ st.currentCard # 0
        THEN IF startsWith(trimmedLine, <<"-">>) /\ indentOf(line) > st.indentationLevel
             THEN next([st EXCEPT
                      !.columns[st.currentColumn].cards[st.currentCard].subtasks =
                          Append(@, newSubtask(line, st.indentationLevel))])
             ELSE IF looksLikeCard(trimmedLine)
             THEN [st EXCEPT !.currentCard = 0]
             ELSE next(appendContent(st, line))
        ELSE next(st)

\* the state of the loop's variables before the first iteration
LoopStart ==
    [i |-> 1, columns |-> <<>>, currentColumn |-> 0, currentCard |-> 0,
     inCodeBlock |-> FALSE, indentationLevel |-> 0]

\* card.content = card.content.trim(), for every card of every column
trimContents(cols) ==
    [c \in 1..Len(cols) |->
        [cols[c] EXCEPT !.cards =
            [k \in 1..Len(cols[c].cards) |->
                [cols[c].cards[k] EXCEPT !.content = trim(@)]]]]

\* the validation off by one
parseThrowsOffByOne(cols) ==
    Len(cols) <= 1

\* the validation: no column is an error
parseThrows(cols) ==
    Len(cols) = 0

RECURSIVE RunLoop(_, _)
RunLoop(ls, st) ==
    IF st.i > Len(ls) THEN st ELSE RunLoop(ls, LoopBody(ls, st))

\* parseMarkdown as one call: the columns it returns (meaningful unless it throws)
parseMarkdown(text) ==
    trimContents(RunLoop(split(text), LoopStart).columns)

----------------------------------------------------------------------------
(* generateMarkdown                                                        *)
(*                                                                         *)
(* A card is a record.  A property that is undefined is a field the record *)
(* does not have; a string property that is null has the value NULL; a     *)
(* list or number property that is null is named in the card's nulls       *)
(* field (cards built by parseMarkdown have every property and no nulls).  *)

FrontMatter ==
    <<"-","-","-","\n","\n","k","a","n","b","a","n","-","p","l","u","g","i","n",":"," ","b","o","a","r","d","\n","\n","-","-","-","\n","\n">>

SettingsTrailer ==
    <<"%","%"," ","k","a","n","b","a","n",":","s","e","t","t","i","n","g","s","\n",Backtick,Backtick,Backtick,"\n","{","\"","k","a","n","b","a","n","-","p","l","u","g","i","n","\"",":","\"","b","o","a","r","d","\"","}","\n",Backtick,Backtick,Backtick,"\n","%","%","\n">>

hasProp(obj, f) ==
    /\ f \in DOMAIN obj
    /\ ~("nulls" \in DOMAIN obj /\ f \in obj.nulls)

\* truthiness of a string property: undefined, null and '' are falsy
truthyString(obj, f) ==
    hasProp(obj, f) /\ obj[f] \notin {NULL, UNDEFINED, <<>>}

\* truthiness of a list property: undefined and null are falsy, [] is truthy
truthyList(obj, f) ==
    hasProp(obj, f)

\* obj[f] || d for a number property
numberOr(obj, f, d) ==
    IF hasProp(obj, f) /\ obj[f] # 0 THEN obj[f] ELSE d

\* the tags test without its guard: card.tags.length is read whatever card.tags is
readsTagsLengthUnguarded(card) ==
    TRUE

\* card.tags && card.tags.length > 0: whether card.tags.length is read
readsTagsLength(card) ==
    truthyList(card, "tags")

\* if (card.content): whether card.content.split is called
callsContentSplit(card) ==
    truthyString(card, "content")

\* card.subtasks && card.subtasks.length > 0: whether card.subtasks.length is read
readsSubtasksLength(card) ==
    truthyList(card, "subtasks")

\* the exceptions a card can raise in generateMarkdown: a negative repeat count
\* (RangeError), or a property read on undefined or null (TypeError)
cardThrows(card) ==
    \/ numberOr(card, "indentation", 0) < 0
    \/ readsTagsLength(card) /\ ~hasProp(card, "tags")
    \/ callsContentSplit(card) /\ ~hasProp(card, "content")
    \/ readsSubtasksLength(card) /\ ~hasProp(card, "subtasks")
    \/ /\ readsSubtasksLength(card) /\ hasProp(card, "subtasks")
       /\ \E k \in 1..Len(card.subtasks) :
              numberOr(card, "indentation", 0) + numberOr(card.subtasks[k], "indentation", 1) < 0

generateThrows(cols) ==
    \E c \in 1..Len(cols) : \E k \in 1..Len(cols[c].cards) : cardThrows(cols[c].cards[k])

checkboxOf(completed) ==
    IF completed THEN <<"[", "x", "]">> ELSE <<"[", " ", "]">>

\* whether the tag token is appended to the card line built so far
emitsTag(cardLine, tag) ==
    ~includes(cardLine, <<"#">> \o tag)

\* card.tags.forEach: the card line after the tags from index k on
RECURSIVE appendTags(_, _, _)
appendTags(cardLine, tags, k) ==
    IF k > Len(tags) THEN cardLine
    ELSE appendTags(IF emitsTag(cardLine, tags[k])
                    THEN cardLine \o <<" ", "#">> \o tags[k]
                    ELSE cardLine,
                    tags, k + 1)

\* generateCardLine with the due date written before the priority
generateCardLineDueFirst(card) ==
    LET indentation == repeatIndent(numberOr(card, "indentation", 0))
        base == indentation \o <<"-", " ">> \o checkboxOf(card.completed) \o <<" ">> \o card.text
        due  == IF truthyString(card, "dueDate")
                THEN base \o <<" ", "@", "d", "u", "e", "(">> \o card.dueDate \o <<")">> ELSE base
        prio == IF truthyString(card, "priority")
                THEN due \o <<" ", "!">> \o card.priority ELSE due
    IN  IF readsTagsLength(card) /\ Len(card.tags) > 0
        THEN appendTags(prio, card.tags, 1) ELSE prio

\* the card line with its metadata tokens, without the line break
generateCardLine(card) ==
    LET indentation == repeatIndent(numberOr(card, "indentation", 0))
        base == indentation \o <<"-", " ">> \o checkboxOf(card.completed) \o <<" ">> \o card.text
        prio == IF truthyString(card, "priority")
                THEN base \o <<" ", "!">> \o card.priority ELSE base
        due  == IF truthyString(card, "dueDate")
                THEN prio \o <<" ", "@", "d", "u", "e", "(">> \o card.dueDate \o <<")">> ELSE prio
    IN  IF readsTagsLength(card) /\ Len(card.tags) > 0
        THEN appendTags(due, card.tags, 1) ELSE due

\* contentLines.forEach: the content lines from index k on, re-indented
RECURSIVE generateContent(_, _, _)
generateContent(indentation, contentLines, k) ==
    IF k > Len(contentLines) THEN <<>>
    ELSE indentation \o <<" ", " ">> \o contentLines[k] \o <<"\n">>
         \o generateContent(indentation, contentLines, k + 1)

\* card.subtasks.forEach: the subtask lines from index k on
RECURSIVE generateSubtasks(_, _, _)
generateSubtasks(card, subtasks, k) ==
    IF k > Len(subtasks) THEN <<>>
    ELSE repeatIndent(numberOr(card, "indentation", 0)
                      + numberOr(subtasks[k], "indentation", 1))
         \o <<"-", " ">> \o checkboxOf(subtasks[k].completed) \o <<" ">>
         \o subtasks[k].text \o <<"\n">>
         \o generateSubtasks(card, subtasks, k + 1)

\* everything generateMarkdown writes for one card
generateCard(card) ==
    generateCardLine(card) \o <<"\n">>
    \o (IF callsContentSplit(card)
        THEN generateContent(repeatIndent(numberOr(card, "indentation", 0)),
                             split(card.content), 1)
        ELSE <<>>)
    \o (IF readsSubtasksLength(card) /\ Len(card.subtasks) > 0
        THEN generateSubtasks(card, card.subtasks, 1)
        ELSE <<>>)
    \o <<"\n">>

RECURSIVE generateCards(_, _)
generateCards(cards, k) ==
    IF k > Len(cards) THEN <<>>
    ELSE generateCard(cards[k]) \o generateCards(cards, k + 1)

RECURSIVE generateColumns(_, _)
generateColumns(cols, c) ==
    IF c > Len(cols) THEN <<>>
    ELSE <<"#", "#", " ">> \o cols[c].title \o <<"\n", "\n">>
         \o generateCards(cols[c].cards, 1) \o <<"\n">>
         \o generateColumns(cols, c + 1)

\* the text generateMarkdown returns (meaningful unless it throws)
generateMarkdown(cols) ==
    FrontMatter \o generateColumns(cols, 1) \o SettingsTrailer

----------------------------------------------------------------------------
(* The inputs.  A text is composed from line descriptors, and a card line  *)
(* from tokens separated by single spaces; the program only ever sees the  *)
(* characters (markdown).  The descriptors say what was written, so that   *)
(* what the parser recovers can be compared with it.                       *)

MaxLines ==
    3

MaxTokens ==
    3

MaxLinkTokens ==
    4

MaxGenerations ==
    2

\* every sequence over S of length 0..n
RECURSIVE SeqsUpTo(_, _)
SeqsUpTo(S, n) ==
    IF n = 0 THEN {<<>>}
    ELSE LET shorter == SeqsUpTo(S, n - 1)
         IN  shorter \cup {Append(q, x) : q \in {r \in shorter : Len(r) = n - 1}, x \in S}

Word(chars) ==
    [ty |-> "word", s |-> chars, v |-> chars]

PrioTok(chars, value) ==
    [ty |-> "prio", s |-> <<"!">> \o chars, v |-> value]

DueTok(date) ==
    [ty |-> "due", s |-> <<"@","d","u","e","(">> \o date \o <<")">>, v |-> date]

TagTok(name) ==
    [ty |-> "tag", s |-> <<"#">> \o name, v |-> name]

\* an inline link [label](url)
LinkTok(label, url) ==
    [ty |-> "link", s |-> <<"[">> \o label \o <<"]", "(">> \o url \o <<")">>, v |-> url, label |-> label]

\* a bare URL
UrlTok(url) ==
    [ty |-> "url", s |-> url, v |-> url]

\* a URL written in parentheses
ParenUrlTok(url) ==
    [ty |-> "purl", s |-> <<"(">> \o url \o <<")">>, v |-> url]

ShipIt ==
    <<"S","h","i","p"," ","i","t">>
DoneTask ==
    <<"D","o","n","e"," ","t","a","s","k">>
High ==
    <<"h","i","g","h">>
Low ==
    <<"l","o","w">>
Date1 ==
    <<"2","0","2","5","-","0","3","-","0","1">>
Date2 ==
    <<"2","0","2","5","-","1","2","-","3","1">>
Release ==
    <<"r","e","l","e","a","s","e">>
Rel ==
    <<"r","e","l">>
UrlX ==
    <<"h","t","t","p","s",":","/","/","x",".","i","o","/","d">>
UrlY ==
    <<"h","t","t","p","s",":","/","/","y",".","i","o">>
UrlZ ==
    <<"h","t","t","p","s",":","/","/","z",".","i","o">>
Docs ==
    <<"d","o","c","s">>

\* the words a card line is written with; the last one looks like a checkbox
Words ==
    { Word(ShipIt), Word(DoneTask), Word(<<"[", "x", "]">>) }

MetaTokens ==
    { PrioTok(High, High), PrioTok(<<"L","O","W">>, Low),
      DueTok(Date1), DueTok(Date2),
      TagTok(Release), TagTok(Rel) }

LinkTokens ==
    { Word(<<"s","e","e">>), Word(<<"a","n","d">>),
      LinkTok(Docs, UrlX), LinkTok(<<"y">>, UrlY),
      UrlTok(UrlY), UrlTok(UrlX), ParenUrlTok(UrlZ) }

\* the checkbox written after the list marker, by kind
BoxKinds ==
    {"none", "open", "x", "X"}

BoxText(box) ==
    CASE box = "none" -> <<>>
      [] box = "open" -> <<"[", " ", "]">>
      [] box = "x"    -> <<"[", "x", "]">>
      [] box = "X"    -> <<"[", "X", "]">>

RECURSIVE JoinTokens(_, _)
JoinTokens(toks, k) ==
    IF k > Len(toks) THEN <<>>
    ELSE (IF k > 1 THEN <<" ">> ELSE <<>>) \o toks[k].s \o JoinTokens(toks, k + 1)

Spaces(n) ==
    [k \in 1..n |-> " "]

\* a list item line: ind spaces, the marker, gap spaces, the checkbox, the tokens
CardLine(ind, gap, box, toks) ==
    [k |-> "card", ind |-> ind, gap |-> gap, box |-> box, toks |-> toks]

HeadingLine(title) ==
    [k |-> "heading", ind |-> 0, gap |-> 1, box |-> "none", toks |-> <<Word(title)>>]

\* any other line, written as given
RawLine(kind, chars) ==
    [k |-> kind, ind |-> 0, gap |-> 0, box |-> "none", toks |-> <<Word(chars)>>]

RenderLine(d) ==
    CASE d.k = "card" ->
            Spaces(d.ind) \o <<"-">> \o Spaces(d.gap) \o BoxText(d.box)
            \o (IF d.box # "none" /\ d.toks # <<>> THEN <<" ">> ELSE <<>>)
            \o JoinTokens(d.toks, 1)
      [] d.k = "heading" -> <<"#", "#">> \o Spaces(d.gap) \o d.toks[1].s
      [] OTHER -> d.toks[1].s

RECURSIVE RenderText(_, _)
RenderText(ds, k) ==
    IF k > Len(ds) THEN <<>>
    ELSE (IF k > 1 THEN <<"\n">> ELSE <<>>) \o RenderLine(ds[k]) \o RenderText(ds, k + 1)

TitleA == <<"A">>
TitleB == <<"B">>

\* the lines the structural inputs are composed from
LinePool ==
    { HeadingLine(TitleA),
      HeadingLine(TitleB),
      CardLine(0, 1, "open", <<Word(<<"x">>)>>),
      CardLine(0, 1, "x", <<Word(<<"y">>), TagTok(<<"t">>)>>),
      CardLine(2, 1, "open", <<Word(<<"s">>)>>),
      RawLine("text", <<" ", " ", "n", "o", "t", "e">>),
      RawLine("blank", <<>>),
      RawLine("fence", Fence) }

Inputs ==
    SeqsUpTo(LinePool, MaxLines) \ {<<>>}

\* the token lists of the card lines: metadata tokens after a word, before a
\* word, or alone
CardTokens ==
    LET metas == SeqsUpTo(MetaTokens, MaxTokens)
    IN  metas
        \cup {<<w>> \o m : w \in Words, m \in metas}
        \cup {m \o <<Word(ShipIt)>> : m \in metas}

\* one column heading followed by one card line; the list marker is followed
\* by a space, or by nothing when the line has at most one token.  A card
\* line that has no checkbox does not begin with the word that looks like one.
CardInputs ==
    { d \in { <<HeadingLine(TitleA), CardLine(0, gap, box, toks)>> :
                gap \in {0, 1}, box \in BoxKinds, toks \in CardTokens } :
        /\ d[2].gap = 0 => Len(d[2].toks) <= 1
        /\ d[2].box = "none" /\ d[2].toks # <<>> => d[2].toks[1].s # <<"[", "x", "]">> }

LinkInputs ==
    { <<HeadingLine(TitleA), CardLine(0, 1, "open", toks)>> :
        toks \in SeqsUpTo(LinkTokens, MaxLinkTokens) }

----------------------------------------------------------------------------
(* The application around the transcoder, as it is when the page has been  *)
(* loaded and nothing has happened yet.                                    *)

\* the page before a file is loaded, and as the Back button leaves it: the
\* file section is shown and the board container is hidden
PageLoaded ==
    [fileSection |-> "block", boardHidden |-> TRUE, controls |-> FALSE,
     board |-> <<>>, alerts |-> <<>>]

\* let syncState = { pendingChanges: false, syncTimer: null, autoSaveTimer: null,
\*                   currentRepo: null, ... }
\* (a timer id is a positive number, 0 stands for null)
SyncStateStart ==
    [pendingChanges |-> FALSE, syncTimer |-> 0, autoSaveTimer |-> 0, currentRepo |-> NULL]

\* no timeout is pending and no request is in flight
BrowserIdle(authenticated) ==
    [now |-> 0, timers |-> {}, nextTimer |-> 1, requests |-> {}, nextRequest |-> 1,
     authenticated |-> authenticated]

\* what has happened so far (never read by the program): the number of
\* board changes handled, the newest of them that a successful request
\* carried, the time of the last one, the calls of saveToLocalStorage that
\* the auto-save timer made since the last one, and the calls of manualSync
\* and setRepoInfo
HistoryStart ==
    [changes |-> 0, pushed |-> 0, lastChange |-> 0, timerSaves |-> 0, directCalls |-> 0]

AppIdle ==
    /\ page = PageLoaded
    /\ syncState = SyncStateStart
    /\ browser = BrowserIdle(FALSE)
    /\ history = HistoryStart

----------------------------------------------------------------------------
(* The state machine: a call of parseMarkdown taken one loop iteration at  *)
(* a time, generateMarkdown on the board it returned, and parseMarkdown    *)
(* called again on the generated text.                                     *)

\* the state at the entry of the for loop of parseMarkdown(RenderText(d))
StartOn(d) ==
    /\ src = d
    /\ markdown = RenderText(d, 1)
    /\ lines = split(RenderText(d, 1))
    /\ i = LoopStart.i
    /\ columns = LoopStart.columns
    /\ currentColumn = LoopStart.currentColumn
    /\ currentCard = LoopStart.currentCard
    /\ inCodeBlock = LoopStart.inCodeBlock
    /\ indentationLevel = LoopStart.indentationLevel
    /\ pc = "parsing"
    /\ outputs = <<>>
    /\ iterations = 0
    /\ calls = <<>>
    /\ AppIdle

Init ==
    \E d \in Inputs : StartOn(d)

InitCard ==
    \E d \in CardInputs : StartOn(d)

InitLinks ==
    \E d \in LinkInputs : StartOn(d)

\* the objects a call allocates are numbered in the order of allocation, over
\* all calls: the number of objects allocated by the calls finished so far
allocated(cs) ==
    IF cs = <<>> THEN 0 ELSE cs[Len(cs)].last

\* the number of column and card objects of a board
objectCount(cols) ==
    LET RECURSIVE cardsFrom(_)
        cardsFrom(c) == IF c > Len(cols) THEN 0 ELSE Len(cols[c].cards) + cardsFrom(c + 1)
    IN  Len(cols) + cardsFrom(1)

\* the record of a call of parseMarkdown(text) that built the columns cols:
\* every column and card object of its result is created by an object literal
\* evaluated in the call (first..last are their numbers)
parseCall(cs, text, cols) ==
    [fn     |-> "parseMarkdown",
     text   |-> text,
     threw  |-> parseThrows(cols),
     result |-> IF parseThrows(cols) THEN <<>> ELSE cols,
     first  |-> allocated(cs) + 1,
     last   |-> allocated(cs) + objectCount(cols)]

\* the record of a call of extractLinks(text): its links are created in the call
extractCall(cs, text) ==
    [fn     |-> "extractLinks",
     text   |-> text,
     threw  |-> FALSE,
     result |-> extractLinks(text),
     first  |-> allocated(cs) + 1,
     last   |-> allocated(cs) + Len(extractLinks(text))]

\* the locals of parseMarkdown at the entry of the loop but for the code-block
\* flag, which is left as the call before set it
parseEntryStale ==
    [LoopStart EXCEPT !.inCodeBlock = inCodeBlock]

\* the locals of parseMarkdown at the entry of the loop: they are declared in
\* the function, so that a call starts from them whatever ran before
parseEntry ==
    LoopStart

\* the loop's variables as the record LoopBody works on
LoopState ==
    [i |-> i, columns |-> columns, currentColumn |-> currentColumn,
     currentCard |-> currentCard, inCodeBlock |-> inCodeBlock,
     indentationLevel |-> indentationLevel]

SetLoopState(st) ==
    /\ i' = st.i
    /\ columns' = st.columns
    /\ currentColumn' = st.currentColumn
    /\ currentCard' = st.currentCard
    /\ inCodeBlock' = st.inCodeBlock
    /\ indentationLevel' = st.indentationLevel

\* parseMarkdown(text) as one call, from its entry to its return or throw
parseCalled(text) ==
    \E st \in {RunLoop(split(text), parseEntry)} :
    \E cols \in {trimContents(st.columns)} :
        /\ markdown' = text
        /\ lines' = split(text)
        /\ SetLoopState([st EXCEPT !.columns = cols])
        /\ pc' = IF parseThrows(cols) THEN "thrown" ELSE "returned"
        /\ calls' = Append(calls, parseCall(calls, text, cols))

\* one iteration of the for loop
ParseStep ==
    /\ pc = "parsing"
    /\ i <= Len(lines)
    /\ SetLoopState(LoopBody(lines, LoopState))
    /\ iterations' = iterations + 1
    /\ UNCHANGED <<src, markdown, lines, pc, outputs, calls>>
    /\ UNCHANGED appVars

\* after the loop: the content clean-up, the validation, and the return or throw
ParseFinish ==
    /\ pc = "parsing"
    /\ i > Len(lines)
    /\ columns' = trimContents(columns)
    /\ pc' = IF parseThrows(columns) THEN "thrown" ELSE "returned"
    /\ calls' = Append(calls, parseCall(calls, markdown, trimContents(columns)))
    /\ UNCHANGED <<src, markdown, lines, i, currentColumn, currentCard,
                   inCodeBlock, indentationLevel, outputs, iterations>>
    /\ UNCHANGED appVars

\* generateMarkdown(columns) on the board held
Generate ==
    /\ pc = "returned"
    /\ Len(outputs) < MaxGenerations
    /\ IF generateThrows(columns)
       THEN pc' = "genthrown" /\ UNCHANGED outputs
       ELSE pc' = "generated" /\ outputs' = Append(outputs, generateMarkdown(columns))
    /\ UNCHANGED <<src, markdown, lines, i, columns, currentColumn, currentCard,
                   inCodeBlock, indentationLevel, iterations, calls>>
    /\ UNCHANGED appVars

\* parseMarkdown called on the text generated last, as one call
Reparse ==
    /\ pc = "generated"
    /\ parseCalled(outputs[Len(outputs)])
    /\ UNCHANGED <<src, outputs, iterations>>
    /\ UNCHANGED appVars

Next ==
    \/ ParseStep
    \/ ParseFinish
    \/ Generate
    \/ Reparse

NextParse ==
    \/ ParseStep
    \/ ParseFinish

Spec ==
    Init /\ [][Next]_vars

SpecCard ==
    InitCard /\ [][NextParse]_vars

SpecLinks ==
    InitLinks /\ [][NextParse]_vars

----------------------------------------------------------------------------
(* generateMarkdown on boards that did not come from parseMarkdown: the    *)
(* board read back from the page has cards without some of the optional    *)
(* properties.                                                             *)

MaxBoardCards ==
    2

OptionalProps ==
    {"indentation", "content", "subtasks", "tags", "dueDate", "priority"}

StringProps ==
    {"content", "dueDate", "priority"}

\* a card with every property set
FullCard ==
    [text        |-> <<"x">>,
     completed   |-> FALSE,
     indentation |-> 1,
     content     |-> <<"n", "o", "t", "e">>,
     subtasks    |-> <<[text |-> <<"s">>, completed |-> TRUE, indentation |-> 1]>>,
     tags        |-> <<<<"t">>>>,
     dueDate     |-> Date1,
     priority    |-> High]

\* the card with the properties P undefined
Absent(card, P) ==
    [g \in DOMAIN card \ P |-> card[g]]

\* the card with the properties P null
Nulled(card, P) ==
    [g \in (DOMAIN card \ P) \cup (P \cap StringProps) \cup {"nulls"} |->
        IF g = "nulls" THEN P \ StringProps
        ELSE IF g \in P THEN NULL
        ELSE card[g]]

\* the card with the properties P empty: '', [] or 0
Emptied(card, P) ==
    [g \in DOMAIN card |->
        IF g \notin P THEN card[g]
        ELSE IF g = "indentation" THEN 0
        ELSE <<>>]

\* the card getBoardDataFromDOM builds for a card element without metadata
DomCard ==
    [text |-> <<"x">>, completed |-> TRUE, priority |-> NULL, dueDate |-> NULL]

GenCardPool ==
    {FullCard, DomCard}
    \cup {Absent(FullCard, {f}) : f \in OptionalProps}
    \cup {Nulled(FullCard, {f}) : f \in OptionalProps}
    \cup {Absent(FullCard, OptionalProps), Nulled(FullCard, OptionalProps),
          Emptied(FullCard, OptionalProps)}
    \cup {[FullCard EXCEPT !.subtasks = <<[text |-> <<"s">>, completed |-> FALSE]>>,
                            !.tags = <<<<"t">>, <<"u">>>>]}

\* no column, one column, or an empty column followed by a column of one card
GenBoards ==
    LET cardLists == SeqsUpTo(GenCardPool, MaxBoardCards)
    IN  {<<>>}
        \cup {<<[title |-> TitleA, cards |-> cs]>> : cs \in cardLists}
        \cup {<<[title |-> TitleA, cards |-> <<>>], [title |-> TitleB, cards |-> <<c>>]>> :
                c \in GenCardPool}

\* the board is handed to generateMarkdown
InitGen ==
    /\ src = <<>>
    /\ markdown = <<>>
    /\ lines = <<>>
    /\ i = LoopStart.i
    /\ columns \in GenBoards
    /\ currentColumn = 0
    /\ currentCard = 0
    /\ inCodeBlock = FALSE
    /\ indentationLevel = 0
    /\ pc = "returned"
    /\ outputs = <<>>
    /\ iterations = 0
    /\ calls = <<>>
    /\ AppIdle

NextGen ==
    \/ Generate
    \/ Reparse

SpecGen ==
    InitGen /\ [][NextGen]_vars

----------------------------------------------------------------------------
(* What was written, read off the descriptors of the input.                *)

\* index of the first token of type ty, 0 if there is none
FirstOf(toks, ty) ==
    LET ks == {k \in 1..Len(toks) : toks[k].ty = ty}
    IN  IF ks = {} THEN 0 ELSE Min(ks)

CountOf(toks, ty) ==
    Cardinality({k \in 1..Len(toks) : toks[k].ty = ty})

WrittenPriority(toks) ==
    IF FirstOf(toks, "prio") = 0 THEN NULL ELSE toks[FirstOf(toks, "prio")].v

WrittenDueDate(toks) ==
    IF FirstOf(toks, "due") = 0 THEN NULL ELSE toks[FirstOf(toks, "due")].v

WrittenTags(toks) ==
    LET ts == SelectSeq(toks, LAMBDA t : t.ty = "tag")
    IN  [k \in 1..Len(ts) |-> ts[k].v]

\* the tokens joined by single spaces, with the first due-date token and the
\* first priority token taken out (the spaces around them stay), trimmed
WrittenText(toks) ==
    LET kept == [k \in 1..Len(toks) |->
                    IF k \in {FirstOf(toks, "due"), FirstOf(toks, "prio")}
                    THEN [toks[k] EXCEPT !.s = <<>>]
                    ELSE toks[k]]
    IN  trim(JoinTokens(kept, 1))

RECURSIVE AddBareUrls(_, _, _)
AddBareUrls(links, urls, k) ==
    IF k > Len(urls) THEN links
    ELSE AddBareUrls(IF \E j \in 1..Len(links) : links[j].href = urls[k].v
                     THEN links
                     ELSE Append(links, [text |-> urls[k].v, href |-> urls[k].v]),
                     urls, k + 1)

\* the inline links in order, then the bare URLs not in parentheses whose
\* string is not yet a target
WrittenLinks(toks) ==
    LET inl == SelectSeq(toks, LAMBDA t : t.ty = "link")
    IN  AddBareUrls([k \in 1..Len(inl) |-> [text |-> inl[k].label, href |-> inl[k].v]],
                    SelectSeq(toks, LAMBDA t : t.ty = "url"), 1)

\* parseMarkdown has returned the board of the input (nothing generated yet)
Parsed ==
    pc = "returned" /\ outputs = <<>>

\* the input is one heading and one card line, and its card is parsed
CardParsed ==
    /\ Parsed
    /\ Len(src) = 2 /\ src[2].k = "card"
    /\ Len(columns) = 1 /\ Len(columns[1].cards) = 1

ExampleTokens ==
    <<Word(ShipIt), PrioTok(High, High), DueTok(Date1), TagTok(Release)>>

ShipItRelease ==
    <<"S","h","i","p"," ","i","t"," "," "," ","#","r","e","l","e","a","s","e">>

----------------------------------------------------------------------------
(* Card lines (SpecCard)                                                   *)

\* C3: for a card line whose metadata tokens are separated by whitespace,
\* priority is the lower-cased word of the first priority token or null,
\* dueDate the date of the first @due token or null, and tags the names of
\* all #tag tokens in order, duplicates kept.
C3_MetadataValues ==
    Parsed =>
        /\ CardParsed
        /\ columns[1].cards[1].priority = WrittenPriority(src[2].toks)
        /\ columns[1].cards[1].dueDate = WrittenDueDate(src[2].toks)
        /\ columns[1].cards[1].tags = WrittenTags(src[2].toks)

C3_Witness ==
    /\ CardParsed
    /\ src[2].box = "open" /\ src[2].toks = ExampleTokens
    /\ columns[1].cards[1].priority = High
    /\ columns[1].cards[1].dueDate = Date1
    /\ columns[1].cards[1].tags = <<Release>>

C6_CheckboxFidelity ==
    Parsed =>
        /\ CardParsed
        /\ columns[1].cards[1].completed \in BOOLEAN
        /\ columns[1].cards[1].completed = (src[2].box \in {"x", "X"})
        /\ columns[1].cards[1].text = WrittenText(src[2].toks)

C6_Witness ==
    /\ CardParsed
    /\ src[2].box = "x" /\ src[2].gap = 1 /\ src[2].toks = <<Word(DoneTask)>>
    /\ columns[1].cards[1].completed = TRUE
    /\ columns[1].cards[1].text = DoneTask

----------------------------------------------------------------------------
(* Links (SpecLinks)                                                       *)

\* C8: the links of a card are its inline links in order, followed by each
\* bare URL, in order, that is not preceded by "(" and is not yet a target.
C8_LinkExtraction ==
    Parsed =>
        /\ CardParsed
        /\ columns[1].cards[1].links = WrittenLinks(src[2].toks)

C8_Witness ==
    /\ CardParsed
    /\ src[2].toks = <<Word(<<"s","e","e">>), LinkTok(Docs, UrlX), Word(<<"a","n","d">>), UrlTok(UrlY)>>
    /\ columns[1].cards[1].links = <<[text |-> Docs, href |-> UrlX], [text |-> UrlY, href |-> UrlY]>>

----------------------------------------------------------------------------
(* Whole texts (Spec)                                                      *)

\* C1: generating from the parse of a generated text gives that text again:
\* generate(parse(generate(parse(T)))) = generate(parse(T)).
C1_Idempotent ==
    Len(outputs) >= 2 => outputs[2] = outputs[1]

\* some line of the text being parsed starts, after trimming, with ##
HasHeadingLine ==
    \E k \in 1..Len(lines) : startsWith(trim(lines[k]), <<"#", "#">>)

\* C2: parseMarkdown throws exactly when no line of its input starts, after
\* trimming, with ##; otherwise it returns a board of at least one column.
C2_ThrowsIffNoHeading ==
    /\ pc = "thrown" => ~HasHeadingLine
    /\ pc = "returned" => HasHeadingLine /\ Len(columns) >= 1

C2_Witness ==
    /\ Parsed
    /\ src = <<RawLine("fence", Fence), HeadingLine(TitleA)>>
    /\ inCodeBlock
    /\ Len(columns) = 1

\* C5: while a card is open, a list item line indented deeper than the card
\* is appended to the card's subtasks, with the difference of the levels as
\* its indentation, and adds no card to the column.
C5_SubtaskNesting ==
    [][ /\ pc = "parsing" /\ i <= Len(lines) /\ iterations' = iterations + 1
        /\ currentCard # 0 /\ ~inCodeBlock /\ ~isFence(lines[i])
        /\ startsWith(trim(lines[i]), <<"-">>)
        /\ indentOf(lines[i]) > columns[currentColumn].cards[currentCard].indentation
        => LET card == columns[currentColumn].cards[currentCard]
           IN  /\ Len(columns') = Len(columns)
               /\ Len(columns'[currentColumn].cards) = Len(columns[currentColumn].cards)
               /\ columns'[currentColumn].cards[currentCard].subtasks =
                      Append(card.subtasks,
                             [text        |-> stripCheckbox(trim(lines[i])).text,
                              completed   |-> stripCheckbox(trim(lines[i])).completed,
                              indentation |-> indentOf(lines[i]) - card.indentation])
      ]_vars

\* index of the last list item line of the input, 0 if there is none
LastCardLine(ds) ==
    LET ks == {k \in 1..Len(ds) : ds[k].k = "card"}
    IN  IF ks = {} THEN 0 ELSE CHOOSE k \in ks : \A j \in ks : j <= k

\* the raw lines from index k on, up to the last line that is not blank,
\* joined by line breaks
RECURSIVE JoinRaw(_, _, _)
JoinRaw(ds, k, last) ==
    IF k > last THEN <<>>
    ELSE RenderLine(ds[k]) \o (IF k < last THEN <<"\n">> ELSE <<>>) \o JoinRaw(ds, k + 1, last)

WrittenContent(ds, from) ==
    LET full == {k \in from..Len(ds) : trim(RenderLine(ds[k])) # <<>>}
    IN  IF full = {} THEN <<>>
        ELSE JoinRaw(ds, from, CHOOSE k \in full : \A j \in full : j <= k)

\* the input ends with a card of some column followed only by text and blank lines
EndsWithContinuation(ds) ==
    /\ LastCardLine(ds) # 0
    /\ \E k \in 1..(LastCardLine(ds) - 1) : ds[k].k = "heading"
    /\ \A k \in 1..Len(ds) : ds[k].k # "fence"
    /\ \A k \in (LastCardLine(ds) + 1)..Len(ds) : ds[k].k \in {"text", "blank"}

\* C7: a card's content is the raw lines that followed it, leading whitespace
\* kept, joined by line breaks, with only the trailing blank lines removed.
C7_ContentFidelity ==
    Parsed /\ EndsWithContinuation(src) =>
        LET cards == columns[Len(columns)].cards
        IN  cards[Len(cards)].content = WrittenContent(src, LastCardLine(src) + 1)

\* the titles of the columns with the text and completed flag of their cards
Outline(cols) ==
    [c \in 1..Len(cols) |->
        [title |-> cols[c].title,
         cards |-> [k \in 1..Len(cols[c].cards) |->
                       [text |-> cols[c].cards[k].text,
                        completed |-> cols[c].cards[k].completed]]]]

\* the outline as written: a heading opens a column, a list item line adds a
\* card to the column opened last
RECURSIVE WrittenOutline(_, _, _)
WrittenOutline(ds, k, acc) ==
    IF k > Len(ds) THEN acc
    ELSE WrittenOutline(ds, k + 1,
            CASE ds[k].k = "heading" ->
                    Append(acc, [title |-> ds[k].toks[1].s, cards |-> <<>>])
              [] ds[k].k = "card" /\ acc # <<>> ->
                    [acc EXCEPT ![Len(acc)].cards =
                        Append(@, [text |-> WrittenText(ds[k].toks),
                                   completed |-> ds[k].box \in {"x", "X"}])]
              [] OTHER -> acc)

\* no fenced block and no nested list item in the input
PlainLines(ds) ==
    \A k \in 1..Len(ds) : ds[k].k # "fence" /\ ds[k].ind = 0

\* C9: columns come in the order of their heading lines and cards in the order
\* of their card lines, each card in the column of the nearest heading before
\* it; a heading followed at once by a heading gives a column with no cards.
C9_DocumentOrder ==
    Parsed /\ PlainLines(src) => Outline(columns) = WrittenOutline(src, 1, <<>>)

C9_Witness ==
    /\ Parsed
    /\ src = <<HeadingLine(TitleA), HeadingLine(TitleB), CardLine(0, 1, "open", <<Word(<<"x">>)>>)>>
    /\ Len(columns) = 2
    /\ columns[1].title = TitleA /\ columns[1].cards = <<>>
    /\ columns[2].title = TitleB /\ Len(columns[2].cards) = 1

----------------------------------------------------------------------------
(* The generator on any board (SpecGen)                                    *)

\* C10: generateMarkdown never throws and returns a text, also for cards
\* whose optional properties are undefined, null or empty, for a board
\* without columns and for columns without cards.
C10_GeneratorTotal ==
    /\ pc # "genthrown"
    /\ pc = "generated" =>
           /\ startsWith(outputs[Len(outputs)], FrontMatter)
           /\ Len(outputs[Len(outputs)]) >= Len(FrontMatter) + Len(SettingsTrailer)

C10_Witness ==
    /\ pc = "generated" /\ Len(outputs) = 1 /\ src = <<>>
    /\ columns = <<[title |-> TitleA,
                    cards |-> <<Absent(FullCard, OptionalProps),
                                Nulled(FullCard, OptionalProps)>>]>>

----------------------------------------------------------------------------
(* The layout of the generated text (SpecGen)                              *)

\* the list or number property is there: not undefined, not null
Given(card, f) ==
    /\ f \in DOMAIN card
    /\ ~("nulls" \in DOMAIN card /\ f \in card.nulls)

\* the string property is there with a value: not undefined, not null, not empty
Present(card, f) ==
    /\ f \in DOMAIN card
    /\ card[f] \notin {NULL, UNDEFINED, <<>>}

LevelOf(obj, default) ==
    IF Given(obj, "indentation") /\ obj.indentation # 0 THEN obj.indentation ELSE default

\* the lines, each followed by a line break
RECURSIVE JoinLines(_, _)
JoinLines(ls, k) ==
    IF k > Len(ls) THEN <<>> ELSE ls[k] \o <<"\n">> \o JoinLines(ls, k + 1)

RECURSIVE Flatten(_, _)
Flatten(lists, k) ==
    IF k > Len(lists) THEN <<>> ELSE lists[k] \o Flatten(lists, k + 1)

\* " #t" for every tag of the card, in stored order
LayoutTagTokens(card) ==
    IF Given(card, "tags")
    THEN Flatten([k \in 1..Len(card.tags) |-> <<" ", "#">> \o card.tags[k]], 1)
    ELSE <<>>

\* no #tag of the card is already written on its line when its turn comes
\* (in the text, in the priority or due-date token, or as an earlier tag)
NoTagOnLine(card) ==
    Given(card, "tags") =>
        \A k \in 1..Len(card.tags) :
            LET tok == <<"#">> \o card.tags[k]
            IN  /\ ~includes(card.text, tok)
                /\ Present(card, "priority") => ~includes(<<"!">> \o card.priority, tok)
                /\ Present(card, "dueDate") => ~includes(card.dueDate, tok)
                /\ \A j \in 1..(k - 1) : ~includes(<<"#">> \o card.tags[j], tok)

\* the lines of one card: the card line, the content lines, the subtask
\* lines, one blank line
LayoutCard(card) ==
    LET ind == Spaces(2 * LevelOf(card, 0))
    IN  << ind \o <<"-", " ", "[">> \o (IF card.completed THEN <<"x">> ELSE <<" ">>) \o <<"]", " ">>
           \o card.text
           \o (IF Present(card, "priority") THEN <<" ", "!">> \o card.priority ELSE <<>>)
           \o (IF Present(card, "dueDate")
               THEN <<" ", "@", "d", "u", "e", "(">> \o card.dueDate \o <<")">> ELSE <<>>)
           \o LayoutTagTokens(card) >>
        \o (IF Present(card, "content")
            THEN [k \in 1..Len(split(card.content)) |-> ind \o <<" ", " ">> \o split(card.content)[k]]
            ELSE <<>>)
        \o (IF Given(card, "subtasks")
            THEN [k \in 1..Len(card.subtasks) |->
                    Spaces(2 * (LevelOf(card, 0) + LevelOf(card.subtasks[k], 1)))
                    \o <<"-", " ", "[">>
                    \o (IF card.subtasks[k].completed THEN <<"x">> ELSE <<" ">>)
                    \o <<"]", " ">> \o card.subtasks[k].text]
            ELSE <<>>)
        \o << <<>> >>

\* the lines of one column: the heading, a blank line, the cards, a blank line
LayoutColumn(col) ==
    << <<"#", "#", " ">> \o col.title, <<>> >>
    \o Flatten([k \in 1..Len(col.cards) |-> LayoutCard(col.cards[k])], 1)
    \o << <<>> >>

FrontMatterLines ==
    << <<"-","-","-">>, <<>>,
       <<"k","a","n","b","a","n","-","p","l","u","g","i","n",":"," ","b","o","a","r","d">>, <<>>,
       <<"-","-","-">>, <<>> >>

TrailerLines ==
    << <<"%","%"," ","k","a","n","b","a","n",":","s","e","t","t","i","n","g","s">>,
       Fence,
       <<"{","\"","k","a","n","b","a","n","-","p","l","u","g","i","n","\"",":","\"","b","o","a","r","d","\"","}">>,
       Fence,
       <<"%","%">> >>

Layout(cols) ==
    JoinLines(FrontMatterLines
              \o Flatten([c \in 1..Len(cols) |-> LayoutColumn(cols[c])], 1)
              \o TrailerLines, 1)

AllCards(cols) ==
    UNION {{cols[c].cards[k] : k \in 1..Len(cols[c].cards)} : c \in 1..Len(cols)}

\* C11: the generated text is the frontmatter block, then per column the
\* heading line and a blank line, per card the card line (indentation,
\* checkbox, text, then priority, due date and tags in that order, absent
\* ones leaving no token), its content lines, its subtask lines and a blank
\* line, one more blank line per column, and the settings trailer.
C11_GeneratorLayout ==
    pc = "generated" /\ (\A card \in AllCards(columns) : NoTagOnLine(card)) =>
        outputs[Len(outputs)] = Layout(columns)

C11_Witness ==
    /\ pc = "generated" /\ Len(outputs) = 1
    /\ columns = <<[title |-> TitleA, cards |-> <<>>],
                   [title |-> TitleB,
                    cards |-> <<[FullCard EXCEPT
                                   !.subtasks = <<[text |-> <<"s">>, completed |-> FALSE]>>,
                                   !.tags = <<<<"t">>, <<"u">>>>]>>]>>
    /\ outputs[1] = Layout(columns)
    /\ includes(outputs[1], <<"x"," ","!","h","i","g","h"," ","@","d","u","e","(">> \o Date1 \o <<")"," ","#","t"," ","#","u","\n">>)

----------------------------------------------------------------------------
(* Round trips of whole texts (SpecRound): texts of up to MaxRoundLines    *)
(* lines over headings, list items and fence lines.                        *)

MaxRoundLines ==
    4

RoundLinePool ==
    { HeadingLine(TitleA),
      HeadingLine(TitleB),
      CardLine(0, 1, "open", <<Word(<<"x">>)>>),
      CardLine(0, 1, "x", <<Word(<<"y">>)>>),
      RawLine("fence", Fence) }

RoundInputs ==
    SeqsUpTo(RoundLinePool, MaxRoundLines) \ {<<>>}

InitRound ==
    \E d \in RoundInputs : StartOn(d)

SpecRound ==
    InitRound /\ [][Next]_vars

\* the titles of the columns and the completed flags of their cards, in order
Structure(cols) ==
    [c \in 1..Len(cols) |->
        [title |-> cols[c].title,
         completed |-> [k \in 1..Len(cols[c].cards) |-> cols[c].cards[k].completed]]]

\* the text generated first has been parsed again
ParsedAgain ==
    pc \in {"returned", "thrown"} /\ Len(outputs) = 1 /\ markdown = outputs[1]

\* C12: for an accepted text T with B = parse(T), parse(generate(B)) is a
\* board with the columns of B (same number, titles and order) and in each
\* column the cards of B (same number, order and completed flags), also when
\* T has a fence line while no card is open or an odd number of fence lines.
C12_StructuralRoundTrip ==
    ParsedAgain =>
        /\ pc = "returned"
        /\ Structure(columns) = Structure(parseMarkdown(RenderText(src, 1)))

----------------------------------------------------------------------------
(* Repeated calls (SpecCalls): after the first parse, parseMarkdown is     *)
(* called again on the text it was given first, and extractLinks on the    *)
(* text of a card, in any order with the generate and parse calls.         *)

MaxCallLines ==
    1

MaxCalls ==
    3

LinkCard ==
    CardLine(0, 1, "open", <<LinkTok(Docs, UrlX), UrlTok(UrlY)>>)

\* a heading and a card, or a heading, a card and a fence line, followed by
\* up to MaxCallLines more lines; and a text without heading
CallInputs ==
    { <<HeadingLine(TitleA), LinkCard>> \o t : t \in SeqsUpTo(RoundLinePool, MaxCallLines) }
    \cup { <<HeadingLine(TitleA), LinkCard, RawLine("fence", Fence)>> \o t :
               t \in SeqsUpTo(RoundLinePool, MaxCallLines) }
    \cup { <<LinkCard>> }

InitCalls ==
    \E d \in CallInputs : StartOn(d)

\* parseMarkdown called again on the text the first call was given
ParseAgain ==
    /\ pc \in {"returned", "thrown", "generated"}
    /\ Len(calls) < MaxCalls
    /\ Len(calls) >= 1
    /\ parseCalled(calls[1].text)
    /\ UNCHANGED <<src, outputs, iterations>>
    /\ UNCHANGED appVars

\* extractLinks called on the text of a card of the board held
ExtractLinks ==
    /\ pc = "returned"
    /\ Len(calls) < MaxCalls
    /\ \E card \in AllCards(columns) :
           calls' = Append(calls, extractCall(calls, card.text))
    /\ UNCHANGED <<src, markdown, lines, i, columns, currentColumn, currentCard,
                   inCodeBlock, indentationLevel, pc, outputs, iterations>>
    /\ UNCHANGED appVars

NextCalls ==
    \/ ParseStep
    \/ ParseFinish
    \/ Generate
    \/ Reparse
    \/ ParseAgain
    \/ ExtractLinks

SpecCalls ==
    InitCalls /\ [][NextCalls]_vars

----------------------------------------------------------------------------
(* Due-date tokens, well-formed and not (SpecDue)                          *)

MaxDueTokens ==
    2

\* an @due token that is not in the shape dddd-dd-dd
BadDueTok(chars) ==
    [ty |-> "baddue", s |-> <<"@","d","u","e","(">> \o chars, v |-> chars]

Date99 ==
    <<"2","0","2","5","-","9","9","-","9","9">>

BadDue1 ==
    BadDueTok(<<"2","0","2","5","-","3","-","1",")">>)

DueTokens ==
    { Word(ShipIt), TagTok(Rel),
      DueTok(Date1), DueTok(Date99),
      BadDue1,
      BadDueTok(<<"2","0","2","5","-","0","3","-","0","1">>),
      BadDueTok(<<"2","0","2","5","0","3","0","1",")">>),
      BadDueTok(<<"2","0","2","5","-","0","3","-","0","1","1",")">>) }

DueInputs ==
    { <<HeadingLine(TitleA), CardLine(0, 1, box, toks)>> :
        box \in {"open", "x"}, toks \in SeqsUpTo(DueTokens, MaxDueTokens) }

InitDue ==
    \E d \in DueInputs : StartOn(d)

SpecDue ==
    InitDue /\ [][NextParse]_vars

\* C14: @due(dddd-dd-dd) is taken for any digits, without a calendar check;
\* an @due token in another shape gives no due date, stays as it is in the
\* card text, and does not make the parse fail.
C14_DueDateDegradation ==
    /\ pc # "thrown"
    /\ Parsed =>
           /\ CardParsed
           /\ columns[1].cards[1].dueDate = WrittenDueDate(src[2].toks)
           /\ columns[1].cards[1].text = WrittenText(src[2].toks)
           /\ \A k \in 1..Len(src[2].toks) :
                  src[2].toks[k].ty = "baddue" =>
                      includes(columns[1].cards[1].text, src[2].toks[k].s)
           /\ (\A k \in 1..Len(src[2].toks) : src[2].toks[k].ty # "due") =>
                  columns[1].cards[1].dueDate = NULL

C14_Witness ==
    /\ CardParsed
    /\ src[2].toks = <<DueTok(Date99), BadDue1>>
    /\ columns[1].cards[1].dueDate = Date99
    /\ columns[1].cards[1].text = BadDue1.s

----------------------------------------------------------------------------
(* Blank, rule and settings lines (SpecSkip)                               *)

MaxSkipLines ==
    3

SkipLinePool ==
    { HeadingLine(TitleA),
      CardLine(0, 1, "open", <<Word(<<"x">>)>>),
      RawLine("text", <<"n", "o", "t", "e">>),
      RawLine("blank", <<>>),
      RawLine("rule", <<"-", "-", "-">>),
      RawLine("settings", <<"%", "%", " ", "k", "a", "n", "b", "a", "n", ":", "s", "e", "t", "t", "i", "n", "g", "s">>) }

SkipInputs ==
    SeqsUpTo(SkipLinePool, MaxSkipLines) \ {<<>>}

InitSkip ==
    \E d \in SkipInputs : StartOn(d)

SpecSkip ==
    InitSkip /\ [][NextParse]_vars

\* C15: a blank line, a line starting with --- and a line starting with % are
\* ignored while no card is open; while a card is open (outside a code
\* block) each of them is appended to the content of that card, and adds no
\* card and no column.
C15_SkipRule ==
    [][ /\ pc = "parsing" /\ i <= Len(lines) /\ iterations' = iterations + 1
        /\ outputs = <<>> /\ src[i].k \in {"blank", "rule", "settings"}
        /\ ~inCodeBlock
        => IF currentCard = 0
           THEN columns' = columns /\ currentCard' = 0
           ELSE /\ Len(columns') = Len(columns)
                /\ Len(columns'[currentColumn].cards) = Len(columns[currentColumn].cards)
                /\ currentCard' = currentCard
                /\ columns'[currentColumn].cards[currentCard].content =
                       columns[currentColumn].cards[currentCard].content
                       \o lines[i] \o <<"\n">>
      ]_vars

----------------------------------------------------------------------------
(* Heading lines (SpecTitle)                                               *)

MaxTitleLines ==
    1

\* a heading line: lead spaces, ##, gap spaces, the title, trail spaces
TitleLine(lead, gap, title, trail) ==
    [k |-> "title", ind |-> lead, gap |-> gap, box |-> "none",
     toks |-> <<[ty |-> "word",
                 s  |-> Spaces(lead) \o <<"#", "#">> \o Spaces(gap) \o title \o Spaces(trail),
                 v  |-> title]>>]

Todo ==
    <<"T","o","d","o">>

TitleLines ==
    { TitleLine(lead, gap, title, trail) :
        lead \in {0, 1}, gap \in {0, 1, 2}, trail \in {0, 1},
        title \in {Todo, <<>>, <<"I","n"," ","p","r","o","g","r","e","s","s">>, <<"#","x">>} }

\* up to MaxTitleLines heading lines, alone or followed by a card line
TitleInputs ==
    LET heads == SeqsUpTo(TitleLines, MaxTitleLines) \ {<<>>}
    IN  heads \cup {h \o <<CardLine(0, 1, "open", <<Word(<<"x">>)>>)>> : h \in heads}

InitTitle ==
    \E d \in TitleInputs : StartOn(d)

SpecTitle ==
    InitTitle /\ [][NextParse]_vars

\* the heading lines of the input, in order
WrittenHeadings(ds) ==
    SelectSeq(ds, LAMBDA d : d.k = "title")

\* C16: the title of the column a heading line opens is the text after the
\* leading ## with the whitespace around it removed, whether or not
\* whitespace follows the ##: "## Todo" and "##Todo" both give "Todo", and
\* no title begins with the ## of its heading line.  (Heading lines with
\* nothing after the ## are left to C17.)
C16_ColumnTitle ==
    Parsed /\ (\A c \in 1..Len(WrittenHeadings(src)) : WrittenHeadings(src)[c].toks[1].v # <<>>) =>
        /\ Len(columns) = Len(WrittenHeadings(src))
        /\ \A c \in 1..Len(columns) : columns[c].title = WrittenHeadings(src)[c].toks[1].v

\* C17: every column of a board that parseMarkdown returns has a title that
\* is not empty, also when the heading line is ## alone or ## followed
\* only by whitespace.
C17_TitleNotEmpty ==
    pc = "returned" => \A c \in 1..Len(columns) : columns[c].title # <<>>

C17_Witness ==
    /\ Parsed
    /\ src = <<TitleLine(0, 2, <<>>, 1)>>
    /\ markdown = <<"#", "#", " ", " ", " ">>
    /\ Len(columns) = 1
    /\ columns[1].title = <<"#", "#">>

----------------------------------------------------------------------------
(* Fenced blocks in a card (SpecFence)                                     *)

MaxFenceLines ==
    3

FenceLinePool ==
    { HeadingLine(TitleB),
      CardLine(0, 1, "x", <<Word(<<"y">>)>>),
      CardLine(2, 1, "open", <<Word(<<"s">>)>>),
      RawLine("text", <<" ", " ", "n", "o", "t", "e">>),
      RawLine("blank", <<>>),
      RawLine("fence", Fence) }

\* a column and a card with a fence line after the card, or before it,
\* followed by up to MaxFenceLines lines
FenceInputs ==
    LET card == CardLine(0, 1, "open", <<Word(<<"x">>)>>)
    IN  { <<HeadingLine(TitleA), card, RawLine("fence", Fence)>> \o t :
            t \in SeqsUpTo(FenceLinePool, MaxFenceLines) }
        \cup { <<HeadingLine(TitleA), RawLine("fence", Fence), card>> \o t :
            t \in SeqsUpTo(FenceLinePool, MaxFenceLines) }

InitFence ==
    \E d \in FenceInputs : StartOn(d)

SpecFence ==
    InitFence /\ [][NextParse]_vars

\* C18: while a card is open, a fence line, and inside the fenced block every
\* line (## lines, list items and blank lines too), is appended to the
\* content of that card and adds no column, card or subtask; a fence line
\* opens or closes the block; on the line after the closing fence a heading
\* opens a column and a list item that is not indented a card again.
C18_CodeBlockCapture ==
    [][ /\ pc = "parsing" /\ i <= Len(lines) /\ iterations' = iterations + 1
        /\ currentCard # 0
        => LET cards == columns[currentColumn].cards
               after == columns'[currentColumn].cards
           IN  /\ inCodeBlock' = (inCodeBlock # (src[i].k = "fence"))
               /\ inCodeBlock \/ src[i].k = "fence" =>
                      /\ Len(columns') = Len(columns)
                      /\ Len(after) = Len(cards)
                      /\ currentCard' = currentCard
                      /\ after[currentCard].content =
                             cards[currentCard].content \o lines[i] \o <<"\n">>
                      /\ after[currentCard].subtasks = cards[currentCard].subtasks
               /\ ~inCodeBlock /\ src[i].k = "heading" =>
                      Len(columns') = Len(columns) + 1 /\ currentCard' = 0
               /\ ~inCodeBlock /\ src[i].k = "card" /\ src[i].ind = 0 =>
                      Len(columns') = Len(columns) /\ Len(after) = Len(cards) + 1
      ]_vars

C18_Witness ==
    /\ Parsed
    /\ src = <<HeadingLine(TitleA), CardLine(0, 1, "open", <<Word(<<"x">>)>>),
               RawLine("fence", Fence), HeadingLine(TitleB), RawLine("fence", Fence),
               HeadingLine(TitleB)>>
    /\ Len(columns) = 2
    /\ Len(columns[1].cards) = 1
    /\ columns[1].cards[1].content = Fence \o <<"\n", "#", "#", " ", "B", "\n">> \o Fence
    /\ columns[2].title = TitleB
    /\ ~inCodeBlock

----------------------------------------------------------------------------
(* Tags on the generated card line (SpecTags)                              *)

MaxTags ==
    2

TagNames ==
    {Release, Rel, <<"a">>}

\* boards of one column with one card as parseMarkdown builds them, with any
\* list of up to MaxTags tags
TagBoards ==
    { <<[title |-> TitleA,
         cards |-> <<[text        |-> text,
                      completed   |-> FALSE,
                      indentation |-> 0,
                      content     |-> <<>>,
                      subtasks    |-> <<>>,
                      tags        |-> tags,
                      dueDate     |-> NULL,
                      priority    |-> priority,
                      links       |-> <<>>]>>]>> :
        text \in {<<"x">>, <<"x", " ", "#", "r", "e", "l">>},
        tags \in SeqsUpTo(TagNames, MaxTags),
        priority \in {NULL, High} }

InitTags ==
    /\ src = <<>>
    /\ markdown = <<>>
    /\ lines = <<>>
    /\ i = LoopStart.i
    /\ columns \in TagBoards
    /\ currentColumn = 0
    /\ currentCard = 0
    /\ inCodeBlock = FALSE
    /\ indentationLevel = 0
    /\ pc = "returned"
    /\ outputs = <<>>
    /\ iterations = 0
    /\ calls = <<>>
    /\ AppIdle

SpecTags ==
    InitTags /\ [][NextGen]_vars

\* " #t" for every tag of the card, in stored order, whose #t is not in the
\* text of the card
TagTokensNotInText(card) ==
    Flatten([k \in 1..Len(card.tags) |->
                IF includes(card.text, <<"#">> \o card.tags[k])
                THEN <<>>
                ELSE <<" ", "#">> \o card.tags[k]], 1)

\* C19: the card line ends with " #tag" for each tag of the card, in stored
\* order, except the tags whose #tag is a substring of card.text; the tokens
\* already appended to the line play no part, so that the tags release, rel
\* and the tags a, a are all written when none is in the text.
C19_TagSuppression ==
    pc = "generated" /\ src = <<>> /\ Len(outputs) = 1 =>
        LET card == columns[1].cards[1]
        IN  includes(outputs[1],
                     <<"\n", "-", " ", "[", " ", "]", " ">> \o card.text
                     \o (IF card.priority # NULL THEN <<" ", "!">> \o card.priority ELSE <<>>)
                     \o TagTokensNotInText(card) \o <<"\n">>)

----------------------------------------------------------------------------
(* Indentation of cards (SpecIndent)                                       *)

MaxIndentLines ==
    2

MaxLeading ==
    5

\* a list item line after n spaces; its text names n
IndentedCard(n) ==
    CardLine(n, 1, "open", <<Word(<<"c", <<"0","1","2","3","4","5","6","7","8","9">>[n + 1]>>)>>)

\* a heading followed by up to MaxIndentLines list item lines, each after
\* 0..MaxLeading spaces
IndentInputs ==
    { <<HeadingLine(TitleA)>> \o t :
        t \in SeqsUpTo({IndentedCard(n) : n \in 0..MaxLeading}, MaxIndentLines) }

InitIndent ==
    \E d \in IndentInputs : StartOn(d)

SpecIndent ==
    InitIndent /\ [][Next]_vars

\* the board that the text generated last was generated from
GeneratedFrom ==
    IF Len(outputs) = 1
    THEN parseMarkdown(RenderText(src, 1))
    ELSE parseMarkdown(outputs[Len(outputs) - 1])

\* the number of cards of each column
CardCounts(cols) ==
    [c \in 1..Len(cols) |-> Len(cols[c].cards)]

\* C20: a card has the indentation floor(n / 2) for the n whitespace
\* characters its line begins with, an integer >= 0; generateMarkdown writes
\* 2 * indentation spaces before the "-" of the card; and the cards of the
\* board parsed from the generated text have the indentation they had.
C20_Indentation ==
    /\ pc \in {"returned", "generated"} =>
           \A c \in 1..Len(columns) : \A k \in 1..Len(columns[c].cards) :
               columns[c].cards[k].indentation \in Nat
    /\ Parsed =>
           /\ Len(columns) = 1 /\ Len(columns[1].cards) = Len(src) - 1
           /\ \A k \in 1..Len(columns[1].cards) :
                  /\ 2 * columns[1].cards[k].indentation <= src[k + 1].ind
                  /\ src[k + 1].ind < 2 * columns[1].cards[k].indentation + 2
    /\ pc = "generated" =>
           \A k \in 1..Len(columns[1].cards) :
               includes(outputs[Len(outputs)],
                        <<"\n">> \o Spaces(2 * columns[1].cards[k].indentation)
                        \o <<"-", " ", "[", " ", "]", " ">> \o columns[1].cards[k].text)
    /\ pc = "returned" /\ outputs # <<>> /\ markdown = outputs[Len(outputs)] =>
           \A before \in {GeneratedFrom} :
               CardCounts(columns) = CardCounts(before) =>
                   \A c \in 1..Len(columns) : \A k \in 1..Len(columns[c].cards) :
                       columns[c].cards[k].indentation = before[c].cards[k].indentation

C20_Witness ==
    /\ pc = "returned" /\ Len(outputs) = 1 /\ markdown = outputs[1]
    /\ src = <<HeadingLine(TitleA), IndentedCard(3), IndentedCard(0)>>
    /\ Len(columns) = 1 /\ Len(columns[1].cards) = 2
    /\ columns[1].cards[1].indentation = 1
    /\ columns[1].cards[2].indentation = 0
    /\ includes(outputs[1], <<"\n", " ", " ", "-", " ", "[", " ", "]", " ", "c", "3", "\n">>)

----------------------------------------------------------------------------
(* The three extractions on one card line (SpecOrder): metadata tokens     *)
(* that are repeated, or written without a space between them.             *)

MaxOrderTokens ==
    2

\* a priority token with a due-date token written inside its word
HighAroundDue ==
    Word(<<"!", "h", "i">> \o DueTok(Date1).s \o <<"g", "h">>)

\* a due-date token with a priority token written inside its date
DueAroundLow ==
    Word(<<"@","d","u","e","(","2","0","2","5","-","0","!","l","o","w","3","-","0","1",")">>)

OrderTokens ==
    { Word(ShipIt), TagTok(Rel), PrioTok(High, High), PrioTok(<<"L","O","W">>, Low),
      DueTok(Date1), DueTok(Date2), HighAroundDue, DueAroundLow }

OrderInputs ==
    { <<HeadingLine(TitleA), CardLine(0, 1, "open", toks)>> :
        toks \in SeqsUpTo(OrderTokens, MaxOrderTokens) }

InitOrder ==
    \E d \in OrderInputs : StartOn(d)

SpecOrder ==
    InitOrder /\ [][NextParse]_vars

\* C21: the tags, due date and priority of a card are the matches of the
\* three patterns in the text of the line as it was before any token was
\* removed (removing a token of one kind neither creates nor destroys a
\* match of another kind, so the order of the extractions plays no part),
\* and the text of the card has no match left of a kind that was removed.
C21_ExtractionOrder ==
    CardParsed =>
        \A before \in {stripCheckbox(trim(lines[2])).text} :
            LET card == columns[1].cards[1]
            IN  /\ card.tags = extractTags(before)
                /\ card.dueDate = extractDueDate(before).dueDate
                /\ card.priority = extractPriority(before).priority
                /\ card.dueDate = extractDueDate(extractPriority(before).text).dueDate
                /\ card.dueDate # NULL => matchDueDate(card.text) = 0
                /\ card.priority # NULL => matchPriority(card.text) = 0

----------------------------------------------------------------------------
(* The line loop to its end (SpecTerm).  parseMarkdown is synchronous: once *)
(* called it runs, iteration after iteration, until it returns or throws,  *)
(* and nothing else runs in between; hence the weak fairness of its steps. *)

\* a step of the call as pc and iterations show it: an iteration of the loop
\* while i is within the lines, the return or throw after it.  Every step of
\* NextParse is such a step, and one is possible exactly when NextParse is.
LoopProgress ==
    /\ pc = "parsing"
    /\ \/ i <= Len(lines) /\ iterations' = iterations + 1 /\ pc' = pc
       \/ i > Len(lines) /\ iterations' = iterations /\ pc' \in {"returned", "thrown"}

SpecTerm ==
    Init /\ [][NextParse]_vars /\ WF_<<pc, iterations>>(LoopProgress)

\* C22: parseMarkdown finishes on every input; an iteration that does not
\* advance the line index (the back-up) closes the open card, and an
\* iteration with no card open advances, so that no line is backed up twice
\* and the loop makes at most 2 * lines iterations.  The card branch takes
\* every list item line while a column exists, so in fact no line reaches
\* the back-up and every iteration advances.
C22_Termination ==
    /\ [](iterations <= 2 * Len(lines))
    /\ [](pc = "parsing" => iterations = i - 1)
    /\ [][pc = "parsing" /\ iterations' = iterations + 1 /\ i' = i
            => currentCard # 0 /\ currentCard' = 0]_vars
    /\ [][pc = "parsing" /\ iterations' = iterations + 1 /\ currentCard = 0
            => i' = i + 1]_vars
    /\ <>(pc \in {"returned", "thrown"})

\* a card, then a list item line that has a checkbox while the card is open
C22_Witness ==
    /\ Parsed
    /\ src = <<HeadingLine(TitleA), CardLine(0, 1, "open", <<Word(<<"x">>)>>),
               CardLine(0, 1, "x", <<Word(<<"y">>), TagTok(<<"t">>)>>)>>
    /\ looksLikeCard(trim(lines[3]))
    /\ iterations = 3
    /\ Len(columns[1].cards) = 2

----------------------------------------------------------------------------
(* Content through generate and parse (SpecContent): a card followed by    *)
(* up to MaxContentLines lines of continuation text or fence lines, and    *)
(* then by nothing, by another card, or by another column.                 *)

MaxContentLines ==
    2

ContentLinePool ==
    { RawLine("text", <<" ", " ", "n", "o", "t", "e">>),
      RawLine("text", <<"m", "o", "r", "e">>),
      RawLine("fence", Fence) }

ContentInputs ==
    { <<HeadingLine(TitleA), CardLine(0, 1, "open", <<Word(<<"x">>)>>)>> \o t \o e :
        t \in SeqsUpTo(ContentLinePool, MaxContentLines),
        e \in { <<>>,
                <<CardLine(0, 1, "x", <<Word(<<"y">>)>>)>>,
                <<HeadingLine(TitleB)>> } }

InitContent ==
    \E d \in ContentInputs : StartOn(d)

SpecContent ==
    InitContent /\ [][Next]_vars

\* the content of each card of each column
Contents(cols) ==
    [c \in 1..Len(cols) |->
        [k \in 1..Len(cols[c].cards) |-> cols[c].cards[k].content]]

\* C23: for an accepted text T with B = parse(T), every card of
\* parse(generate(B)) has the content it has in B: continuation lines and
\* fenced blocks come back as they were, whether the card is the last one or
\* is followed by further cards or columns.
C23_ContentRoundTrip ==
    ParsedAgain =>
        \A before \in {parseMarkdown(RenderText(src, 1))} :
            CardCounts(columns) = CardCounts(before) =>
                Contents(columns) = Contents(before)

----------------------------------------------------------------------------
(* Editing the text of a card on the page (SpecEdit): the board of a       *)
(* parsed file is displayed, the text of its card is replaced in the       *)
(* editor and saved.  saveChanges reads the board back from the page and   *)
(* derives the metadata of the edited card from the new text.              *)

MaxCardTokens ==
    2

MaxEditTokens ==
    2

\* the files displayed: one column with one card, written with metadata tokens
EditedInputs ==
    { <<HeadingLine(TitleA), CardLine(0, 1, "open", <<Word(<<"o", "l", "d">>)>> \o toks)>> :
        toks \in SeqsUpTo({PrioTok(Low, Low), DueTok(Date1), TagTok(<<"t">>)}, MaxCardTokens) }

\* the texts typed into the editor (one is empty, one is blank)
EditTexts ==
    { JoinTokens(toks, 1) :
        toks \in SeqsUpTo({Word(ShipIt), PrioTok(High, High), DueTok(Date2), TagTok(Rel)},
                          MaxEditTokens) }
    \cup { <<" ">> }

\* the board parsed from the file is on the page
InitEdit ==
    /\ \E d \in EditedInputs :
           /\ src = d
           /\ markdown = RenderText(d, 1)
           /\ lines = split(RenderText(d, 1))
           /\ \E st \in {RunLoop(split(RenderText(d, 1)), parseEntry)} :
                  /\ i = st.i
                  /\ columns = trimContents(st.columns)
                  /\ currentColumn = st.currentColumn
                  /\ currentCard = st.currentCard
                  /\ inCodeBlock = st.inCodeBlock
                  /\ indentationLevel = st.indentationLevel
    /\ pc = "returned"
    /\ outputs = <<>>
    /\ iterations = 0
    /\ calls = <<>>
    /\ AppIdle

\* the .tag elements of a card element in document order: the spans that
\* formatCardText puts around the tags of the text shown, then the tag
\* elements createCardElement made for the tags of the card
domTags(card, shown) ==
    execAllTags(shown) \o (IF truthyList(card, "tags") THEN card.tags ELSE <<>>)

\* the card getBoardDataFromDOM builds for the element of card, whose text
\* element shows the text shown (subtasks and content are undefined when the
\* element has none)
readCardFromDOM(card, shown) ==
    LET base == [text      |-> shown,
                 completed |-> card.completed,
                 priority  |-> IF truthyString(card, "priority") THEN card.priority ELSE NULL,
                 dueDate   |-> IF truthyString(card, "dueDate") THEN card.dueDate ELSE NULL]
        tags == domTags(card, shown)
    IN  IF tags = <<>> THEN base
        ELSE [g \in DOMAIN base \cup {"tags"} |-> IF g = "tags" THEN tags ELSE base[g]]

\* the metadata saveChanges derives from the new text: a property is
\* assigned when its pattern matches
deriveMetadata(card, newText) ==
    LET tags == execAllTags(newText)
        due  == matchDueDate(newText)
        prio == matchPriority(newText)
    IN  [g \in DOMAIN card \cup (IF Len(tags) > 0 THEN {"tags"} ELSE {}) |->
            IF g = "tags" /\ Len(tags) > 0 THEN tags
            ELSE IF g = "dueDate" /\ due # 0 THEN SubSeq(newText, due + 5, due + 14)
            ELSE IF g = "priority" /\ prio # 0 THEN toLowerCase(priorityGroup(newText, prio))
            ELSE card[g]]

\* the Save button of the editor of card 1 of column 1, with value in the
\* text area: the board saved and rendered is the one read back from the
\* page, with the edited card's text and metadata set
saveChanges(value) ==
    /\ pc = "returned"
    /\ Len(columns) >= 1 /\ Len(columns[1].cards) >= 1
    /\ \E newText \in {trim(value)} :
           /\ IF newText # <<>>
              THEN columns' = [columns EXCEPT ![1].cards[1] =
                                  deriveMetadata(readCardFromDOM(@, newText), newText)]
              ELSE UNCHANGED columns
           /\ calls' = Append(calls, [fn |-> "saveChanges", text |-> newText])
    /\ pc' = "saved"
    /\ UNCHANGED <<src, markdown, lines, i, currentColumn, currentCard,
                   inCodeBlock, indentationLevel, outputs, iterations>>
    /\ UNCHANGED appVars

NextEdit ==
    \E value \in EditTexts : saveChanges(value)

SpecEdit ==
    InitEdit /\ [][NextEdit]_vars

\* C24: after a card is saved with the new text t, its tags, dueDate and
\* priority are what the parser derives from t; a kind of token that t does
\* not have leaves the property empty, whatever the card had before.
C24_EditMetadata ==
    pc = "saved" /\ calls[1].text # <<>> =>
        LET t    == calls[1].text
            card == columns[1].cards[1]
        IN  /\ (IF "tags" \in DOMAIN card THEN card.tags ELSE <<>>) = extractTags(t)
            /\ card.dueDate = extractDueDate(t).dueDate
            /\ card.priority = extractPriority(extractDueDate(t).text).priority

----------------------------------------------------------------------------
(* Loading a file (SpecLoad): the content of a file that was read is       *)
(* handed to processKanbanContent, up to MaxLoads times; the Back button   *)
(* of a rendered board returns to the file selection.                      *)

MaxLoads ==
    2

\* the contents loaded: boards, and texts in which no line begins with ##
\* (the empty file, a list without heading, a line that has ## inside)
LoadInputs ==
    LET card == CardLine(0, 1, "open", <<Word(<<"x">>)>>)
        see  == RawLine("text", <<"s", "e", "e", " ", "#", "#", " ", "A">>)
    IN  { <<>>,
          <<HeadingLine(TitleA)>>,
          <<HeadingLine(TitleA), card>>,
          <<HeadingLine(TitleB), card, card>>,
          <<RawLine("blank", <<>>), HeadingLine(TitleB)>>,
          <<card>>,
          <<see>>,
          <<see, card>> }

InitLoad ==
    /\ src = <<>>
    /\ markdown = <<>>
    /\ lines = <<>>
    /\ i = LoopStart.i
    /\ columns = <<>>
    /\ currentColumn = 0
    /\ currentCard = 0
    /\ inCodeBlock = FALSE
    /\ indentationLevel = 0
    /\ pc = "idle"
    /\ outputs = <<>>
    /\ iterations = 0
    /\ calls = <<>>
    /\ AppIdle

\* error.message of the Error parseMarkdown throws, in the text of the alert
ParseErrorAlert ==
    "Error processing kanban file: No valid kanban columns found in the markdown file"

\* a catch block that swallows the error
processCaughtSilently(pg, message) ==
    pg

\* the catch block of processKanbanContent: alert(message)
processCaught(pg, message) ==
    [pg EXCEPT !.alerts = Append(@, message)]

\* the try block after parseMarkdown returned: the board is rendered with its
\* control buttons, the file section hidden and the board container shown
processShown(pg, kanbanData) ==
    [pg EXCEPT !.board = kanbanData, !.controls = TRUE,
               !.fileSection = "none", !.boardHidden = FALSE]

\* processKanbanContent(content), for the content written as d
processKanbanContent(d) ==
    /\ Len(calls) < MaxLoads
    /\ parseCalled(RenderText(d, 1))
    /\ src' = d
    /\ page' = IF pc' = "thrown"
               THEN processCaught(page, ParseErrorAlert)
               ELSE processShown(page, columns')
    /\ UNCHANGED <<outputs, iterations, syncState, browser, history>>

\* the click handler of the Back button that addControlButtons creates
BackToFileSelection ==
    /\ page.controls
    /\ page' = [page EXCEPT !.fileSection = "block", !.boardHidden = TRUE, !.controls = FALSE]
    /\ UNCHANGED <<src, markdown, lines, i, columns, currentColumn, currentCard,
                   inCodeBlock, indentationLevel, pc, outputs, iterations, calls,
                   syncState, browser, history>>

NextLoad ==
    \/ \E d \in LoadInputs : processKanbanContent(d)
    \/ BackToFileSelection

SpecLoad ==
    InitLoad /\ [][NextLoad]_vars

\* C25: when parseMarkdown throws in processKanbanContent, the error message
\* is shown, and the board rendered, the file section and the board
\* container are left as they were; parseMarkdown is called once.  As long
\* as no load has succeeded the file section is shown, the board container
\* is hidden and no board is rendered.
C25_ParseFailureSurfaced ==
    /\ [][ pc' = "thrown" /\ calls' # calls
            => /\ page'.alerts = Append(page.alerts, ParseErrorAlert)
               /\ page'.board = page.board
               /\ page'.controls = page.controls
               /\ page'.fileSection = page.fileSection
               /\ page'.boardHidden = page.boardHidden
               /\ Len(calls') = Len(calls) + 1
          ]_vars
    /\ []((\A k \in 1..Len(calls) : calls[k].threw) =>
              page.fileSection = "block" /\ page.boardHidden /\ page.board = <<>>)

\* a file whose only ## is inside a line was loaded: the alert is up, and the
\* file section is still there
C25_Witness ==
    /\ pc = "thrown"
    /\ Len(calls) = 1
    /\ src = <<RawLine("text", <<"s", "e", "e", " ", "#", "#", " ", "A">>),
               CardLine(0, 1, "open", <<Word(<<"x">>)>>)>>
    /\ page.alerts = <<ParseErrorAlert>>
    /\ page.fileSection = "block" /\ page.boardHidden /\ page.board = <<>>

----------------------------------------------------------------------------
(* The lines around the columns, read again (SpecGen)                      *)

\* the lines generateMarkdown writes before the first column and after the
\* last one, but for the blank ones
SurroundingLines ==
    {l \in {FrontMatterLines[k] : k \in 1..Len(FrontMatterLines)}
           \cup {TrailerLines[k] : k \in 1..Len(TrailerLines)} : l # <<>>}

\* C26: for every board B, no card of parse(generate(B)) has one of the
\* lines that generateMarkdown writes around the columns in its text or in
\* its content; the last card of the last column is no exception.
C26_SurroundingLinesStayOut ==
    pc = "returned" /\ outputs # <<>> /\ markdown = outputs[Len(outputs)] =>
        \A card \in AllCards(columns) : \A l \in SurroundingLines :
            ~includes(card.text, l) /\ ~includes(card.content, l)

----------------------------------------------------------------------------
(* A fence line before the first card (SpecFence)                          *)

\* the lines of the input but for line k
WithoutLine(ds, k) ==
    SubSeq(ds, 1, k - 1) \o SubSeq(ds, k + 1, Len(ds))

\* C27: a fence line met while no card is open (here line 2, right after
\* the heading) has no effect on the lines after it: the text is parsed to
\* the columns and cards that the text without that line is parsed to, so
\* every heading and card line after it gives its own column or card.
C27_FenceWithoutCardIgnored ==
    pc \in {"returned", "thrown"} /\ outputs = <<>> /\ src[2].k = "fence" =>
        columns = parseMarkdown(RenderText(WithoutLine(src, 2), 1))

----------------------------------------------------------------------------
(* The sync module (SpecSync).  A state of the module is the record st of  *)
(* syncState and the browser (clock, pending timeouts, requests in flight, *)
(* window.auth); the board is not looked into, the data of a request is    *)
(* the number of board changes the board had taken when it was read.       *)

\* milliseconds, SYNC_CONFIG
AUTO_SAVE_DELAY ==
    5000

SYNC_DELAY ==
    30000

\* the clock is looked at every half auto-save delay
Quantum ==
    AUTO_SAVE_DELAY \div 2

MaxChanges ==
    2

MaxTime ==
    35000

\* calls of manualSync and setRepoInfo
MaxDirectCalls ==
    1

Repo ==
    <<"o", "/", "r">>

coderVars ==
    <<src, markdown, lines, i, columns, currentColumn, currentCard,
      inCodeBlock, indentationLevel, pc, outputs, iterations, calls>>

clearTimeout(br, id) ==
    [br EXCEPT !.timers = {t \in @ : t.id # id}]

\* the id returned is br.nextTimer
setTimeout(br, fn, delay) ==
    [br EXCEPT !.timers = @ \cup {[id |-> br.nextTimer, fn |-> fn, due |-> br.now + delay]},
               !.nextTimer = @ + 1]

\* scheduleAutoSave with its clearTimeout left out
scheduleAutoSaveNoClear(st) ==
    [syncState |-> [st.syncState EXCEPT !.autoSaveTimer = st.browser.nextTimer],
     browser |-> setTimeout(st.browser, "saveToLocalStorage", AUTO_SAVE_DELAY)]

scheduleAutoSave(st) ==
    LET cleared == IF st.syncState.autoSaveTimer # 0
                   THEN clearTimeout(st.browser, st.syncState.autoSaveTimer)
                   ELSE st.browser
    IN  [syncState |-> [st.syncState EXCEPT !.autoSaveTimer = cleared.nextTimer],
         browser |-> setTimeout(cleared, "saveToLocalStorage", AUTO_SAVE_DELAY)]

scheduleSyncToGitHub(st) ==
    LET cleared == IF st.syncState.syncTimer # 0
                   THEN clearTimeout(st.browser, st.syncState.syncTimer)
                   ELSE st.browser
    IN  [syncState |-> [st.syncState EXCEPT !.syncTimer = cleared.nextTimer],
         browser |-> setTimeout(cleared, "syncToGitHub", SYNC_DELAY)]

handleBoardChange(st) ==
    LET marked == [st EXCEPT !.syncState.pendingChanges = TRUE]
        saving == scheduleAutoSave(marked)
    IN  IF saving.browser.authenticated THEN scheduleSyncToGitHub(saving) ELSE saving

\* syncToGitHub up to its await: the three early returns, or the request sent
\* with the board data read from the DOM
syncToGitHub(st, boardData) ==
    IF ~st.browser.authenticated THEN st
    ELSE IF ~st.syncState.pendingChanges THEN st
    ELSE IF st.syncState.currentRepo = NULL THEN st
    ELSE [st EXCEPT !.browser.requests = @ \cup {[id |-> st.browser.nextRequest, data |-> boardData]},
                    !.browser.nextRequest = @ + 1]

\* syncToGitHub after its await, for the request r answered with response.ok
\* = ok (a rejected fetch ends in the catch block, which leaves syncState as
\* the not-ok branch does)
syncAnswered(st, r, ok) ==
    [st EXCEPT !.browser.requests = @ \ {r},
               !.syncState.pendingChanges = IF ok THEN FALSE ELSE @]

Sync ==
    [syncState |-> syncState, browser |-> browser]

SetSync(st) ==
    /\ syncState' = st.syncState
    /\ browser' = st.browser

InitSync ==
    /\ src = <<>>
    /\ markdown = <<>>
    /\ lines = <<>>
    /\ i = LoopStart.i
    /\ columns = <<>>
    /\ currentColumn = 0
    /\ currentCard = 0
    /\ inCodeBlock = FALSE
    /\ indentationLevel = 0
    /\ pc = "idle"
    /\ outputs = <<>>
    /\ iterations = 0
    /\ calls = <<>>
    /\ page = PageLoaded
    /\ \E repo \in {NULL, Repo} : syncState = [SyncStateStart EXCEPT !.currentRepo = repo]
    /\ \E authenticated \in BOOLEAN : browser = BrowserIdle(authenticated)
    /\ history = HistoryStart

\* the board:change event
BoardChange ==
    /\ history.changes < MaxChanges
    /\ browser.now + SYNC_DELAY <= MaxTime
    /\ SetSync(handleBoardChange(Sync))
    /\ history' = [history EXCEPT !.changes = @ + 1, !.lastChange = browser.now,
                                  !.timerSaves = 0]
    /\ UNCHANGED <<coderVars, page>>

\* time passes while no timeout is due
Tick ==
    /\ browser.now + Quantum <= MaxTime
    /\ \A t \in browser.timers : t.due > browser.now
    /\ browser' = [browser EXCEPT !.now = @ + Quantum]
    /\ UNCHANGED <<coderVars, page, syncState, history>>

\* a timeout that is due runs its callback
TimerFires(t) ==
    /\ t \in browser.timers
    /\ t.due <= browser.now
    /\ \E fired \in {[Sync EXCEPT !.browser.timers = @ \ {t}]} :
          IF t.fn = "saveToLocalStorage"
          THEN /\ SetSync(fired)
               /\ history' = [history EXCEPT !.timerSaves = @ + 1]
          ELSE /\ SetSync(syncToGitHub(fired, history.changes))
               /\ history' = history
    /\ UNCHANGED <<coderVars, page>>

\* the answer to a request arrives
Response(r, ok) ==
    /\ r \in browser.requests
    /\ SetSync(syncAnswered(Sync, r, ok))
    /\ history' = IF ok /\ r.data > history.pushed
                  THEN [history EXCEPT !.pushed = r.data]
                  ELSE history
    /\ UNCHANGED <<coderVars, page>>

manualSync ==
    /\ history.directCalls < MaxDirectCalls
    /\ SetSync(syncToGitHub(Sync, history.changes))
    /\ history' = [history EXCEPT !.directCalls = @ + 1]
    /\ UNCHANGED <<coderVars, page>>

setRepoInfo(repo) ==
    /\ history.directCalls < MaxDirectCalls
    /\ syncState' = [syncState EXCEPT !.currentRepo = repo]
    /\ history' = [history EXCEPT !.directCalls = @ + 1]
    /\ UNCHANGED <<coderVars, page, browser>>

\* the user logs in or out
setAuthenticated(isAuth) ==
    /\ browser.authenticated # isAuth
    /\ browser' = [browser EXCEPT !.authenticated = isAuth]
    /\ UNCHANGED <<coderVars, page, syncState, history>>

NextSync ==
    \/ BoardChange
    \/ Tick
    \/ \E t \in browser.timers : TimerFires(t)
    \/ \E r \in browser.requests : \E ok \in BOOLEAN : Response(r, ok)
    \/ manualSync
    \/ setRepoInfo(Repo)
    \/ \E isAuth \in BOOLEAN : setAuthenticated(isAuth)

SpecSync ==
    InitSync /\ [][NextSync]_vars

\* C28: pendingChanges is false only if every board change handled so far
\* was part of the board data that a successful syncToGitHub call sent; a
\* change handled while a request is in flight leaves pendingChanges true
\* when that request succeeds.
C28_NoChangeMarkedSynced ==
    ~syncState.pendingChanges => history.pushed = history.changes

----------------------------------------------------------------------------
(* Debounced saving (SpecSyncFair): the clock goes on and the event loop   *)
(* runs the callback of a timeout that is due.                             *)

SpecSyncFair ==
    /\ InitSync /\ [][NextSync]_vars
    /\ WF_vars(Tick)
    /\ WF_vars(\E t \in browser.timers : TimerFires(t))

\* the pending timeouts of the browser br that call fn
TimersOf(br, fn) ==
    {t \in br.timers : t.fn = fn}

OneTimerOfEachKind ==
    /\ Cardinality(TimersOf(browser, "saveToLocalStorage")) <= 1
    /\ Cardinality(TimersOf(browser, "syncToGitHub")) <= 1

\* the step handles a board change
ChangeHandled ==
    history'.changes = history.changes + 1

\* after the step the only pending timeout that calls fn is a new one, kept
\* in syncState, that is due when the delay has passed
Restarted(fn, id, delay) ==
    /\ TimersOf(browser', fn) = {[id |-> id, fn |-> fn, due |-> browser.now + delay]}
    /\ \A t \in browser.timers : t.id # id

AutoSaveRestarted ==
    Restarted("saveToLocalStorage", syncState'.autoSaveTimer, AUTO_SAVE_DELAY)

SyncRestarted ==
    Restarted("syncToGitHub", syncState'.syncTimer, SYNC_DELAY)

\* the auto-save timer calls saveToLocalStorage once after the last change,
\* when the delay has passed since
SavedOncePerBurst ==
    /\ [](history.timerSaves <= 1)
    /\ [][history'.timerSaves = history.timerSaves + 1 =>
              browser.now >= history.lastChange + AUTO_SAVE_DELAY]_vars
    /\ <>[](history.changes > 0 => history.timerSaves = 1)

----------------------------------------------------------------------------
(* The serializer of the sync path (SpecSerial): the board on the page is  *)
(* written by boardDataToMarkdown or by generateMarkdown, and the text is  *)
(* parsed.                                                                 *)

\* card.subtasks.forEach: the subtask lines from index k on
RECURSIVE syncSubtasks(_, _)
syncSubtasks(subtasks, k) ==
    IF k > Len(subtasks) THEN <<>>
    ELSE repeatIndent(numberOr(subtasks[k], "indentation", 1))
         \o <<"-", " ">> \o checkboxOf(subtasks[k].completed) \o <<" ">>
         \o subtasks[k].text \o <<"\n">>
         \o syncSubtasks(subtasks, k + 1)

\* contentLines.forEach: the content lines from index k on
RECURSIVE syncContent(_, _)
syncContent(contentLines, k) ==
    IF k > Len(contentLines) THEN <<>>
    ELSE <<" ", " ">> \o contentLines[k] \o <<"\n">> \o syncContent(contentLines, k + 1)

\* card.tags.forEach: a line for every tag from index k on
RECURSIVE syncTags(_, _)
syncTags(tags, k) ==
    IF k > Len(tags) THEN <<>>
    ELSE <<" ", " ", "#">> \o tags[k] \o <<"\n">> \o syncTags(tags, k + 1)

\* everything boardDataToMarkdown writes for one card
syncCard(card) ==
    <<"-", " ">> \o checkboxOf(card.completed) \o <<" ">> \o card.text \o <<"\n">>
    \o (IF truthyList(card, "subtasks") /\ Len(card.subtasks) > 0
        THEN syncSubtasks(card.subtasks, 1) ELSE <<>>)
    \o (IF truthyString(card, "content")
        THEN syncContent(split(card.content), 1) ELSE <<>>)
    \o (IF truthyString(card, "priority")
        THEN <<" ", " ", "!">> \o card.priority \o <<"\n">> ELSE <<>>)
    \o (IF truthyString(card, "dueDate")
        THEN <<" ", " ", "@">> \o card.dueDate \o <<"\n">> ELSE <<>>)
    \o (IF truthyList(card, "tags") /\ Len(card.tags) > 0
        THEN syncTags(card.tags, 1) ELSE <<>>)
    \o <<"\n">>

RECURSIVE syncCards(_, _)
syncCards(cards, k) ==
    IF k > Len(cards) THEN <<>>
    ELSE syncCard(cards[k]) \o syncCards(cards, k + 1)

RECURSIVE syncColumns(_, _)
syncColumns(boardData, c) ==
    IF c > Len(boardData) THEN <<>>
    ELSE <<"#", "#", " ">> \o boardData[c].title \o <<"\n", "\n">>
         \o syncCards(boardData[c].cards, 1) \o <<"\n">>
         \o syncColumns(boardData, c + 1)

boardDataToMarkdown(boardData) ==
    syncColumns(boardData, 1)

\* boards made by hand and boards as parseMarkdown builds them
SerialBoards ==
    GenBoards \cup TagBoards

\* the board is on the page
InitSerial ==
    /\ src = <<>>
    /\ markdown = <<>>
    /\ lines = <<>>
    /\ i = LoopStart.i
    /\ columns \in SerialBoards
    /\ currentColumn = 0
    /\ currentCard = 0
    /\ inCodeBlock = FALSE
    /\ indentationLevel = 0
    /\ pc = "returned"
    /\ outputs = <<>>
    /\ iterations = 0
    /\ calls = <<>>
    /\ page = processShown(PageLoaded, columns)
    /\ syncState = SyncStateStart
    /\ browser = BrowserIdle(TRUE)
    /\ history = HistoryStart

\* const markdownContent = boardDataToMarkdown(boardData) in syncToGitHub
SyncSerialize ==
    /\ pc = "returned"
    /\ Len(outputs) < MaxGenerations
    /\ outputs' = Append(outputs, boardDataToMarkdown(page.board))
    /\ pc' = "generated"
    /\ UNCHANGED <<src, markdown, lines, i, columns, currentColumn, currentCard,
                   inCodeBlock, indentationLevel, iterations, calls>>
    /\ UNCHANGED appVars

NextSerial ==
    \/ SyncSerialize
    \/ Generate
    \/ Reparse

SpecSerial ==
    InitSerial /\ [][NextSerial]_vars

\* what the two texts are compared on
Agreed(cols) ==
    [c \in 1..Len(cols) |->
        [title |-> cols[c].title,
         cards |-> [k \in 1..Len(cols[c].cards) |->
                       [g \in {"text", "completed", "priority", "dueDate", "tags"} |->
                           cols[c].cards[k][g]]]]]

\* C30: for every board B that generateMarkdown writes, the text that
\* boardDataToMarkdown(B) returns is parsed to the columns, card texts,
\* completed flags, priorities, due dates and tags that the text
\* generateMarkdown(B) is parsed to.
C30_SerializersAgree ==
    /\ pc \in {"returned", "thrown"}
    /\ Len(outputs) = 1 /\ markdown = outputs[1]
    /\ outputs[1] = boardDataToMarkdown(page.board)
    /\ ~generateThrows(page.board)
    => Agreed(columns) = Agreed(parseMarkdown(generateMarkdown(page.board)))

====
